---- MODULE Spec2Model ----
(***************************************************************************)
(* The Network Agent of agentuity/examples-v1 (Mastra "agent network"      *)
(* port): the routing handler with its tool-call loop, executeTool, the    *)
(* city workflow and the thread state key 'conversation'; with it the      *)
(* Memory Agent and its history routes (keys 'messages', 'preferences')    *)
(* the Day Planner (key 'history') and the Research and Writing           *)
(* sub-agents called on their own.                                         *)
(*                                                                         *)
(* Text values are sequences of string tokens: a template literal is the   *)
(* concatenation of its pieces, '' is <<>> and null/undefined is NULL.     *)
(* One action is one run-to-suspension segment of the handler (the code    *)
(* between two awaits), or one iteration head of the for loop.             *)
(* Event timestamps are left out: no operation of the program reads them.  *)
(***************************************************************************)
EXTENDS Integers, Sequences, FiniteSets, TLC

VARIABLES
    inv,      \* inv[p]: the locals of handler invocation slot p
    store,    \* ctx.thread.state of every thread: thread -> key -> value
    obs,      \* obs[p]: history variables of slot p (what was sent, appended)
    run       \* history variables of the whole run (counters, chronology)

vars == <<inv, store, obs, run>>

(***************************************************************************)
(* Bounds of the model                                                     *)
(***************************************************************************)
\* invocations started in one run of Spec
MaxInvocations == 2
\* tool-call requests the routing model may return in one run of Spec
MaxCalls == 2
\* invocations started in one run of SpecHist
HistInvocations == 12
\* tool-call rounds the routing model may ask for in the run of FairLoop
MaxRounds == 3

(***************************************************************************)
(* Program constants                                                       *)
(***************************************************************************)
\* history.slice(-20)
HistoryCap == 20

\* the messages kept by the Memory Agent
MAX_MESSAGES == 20

\* the plans kept in the Day Planner's history
PlanHistoryCap == 5

Procs == {1, 2}
SeqProcs == {1}

(***************************************************************************)
(* Text                                                                    *)
(***************************************************************************)
NULL == <<"<null>">>
EMPTY == <<>>

\* JavaScript truthiness of a string-or-null value (a || b picks b when a is
\* null, undefined or '')
Truthy(s) == s # NULL /\ s # EMPTY

\* a || b
OrElse(a, b) == IF Truthy(a) THEN a ELSE b

\* the texts of the model that are longer than 200 characters
LongTexts == {<<"<report of 200-400 words>">>}

\* s.slice(0, 200)
Slice200(s) == IF s \in LongTexts THEN <<"<first 200 chars of>">> \o s ELSE s

Whitespace == {" ", "\n"}

RECURSIVE TrimStart(_)
TrimStart(s) ==
    IF s # <<>> /\ Head(s) \in Whitespace THEN TrimStart(Tail(s)) ELSE s

RECURSIVE TrimEnd(_)
TrimEnd(s) ==
    IF s # <<>> /\ s[Len(s)] \in Whitespace
    THEN TrimEnd(SubSeq(s, 1, Len(s) - 1))
    ELSE s

\* String.prototype.trim
Trim(s) == TrimEnd(TrimStart(s))

\* array.slice(-n)
SliceLast(a, n) ==
    IF Len(a) <= n THEN a ELSE SubSeq(a, Len(a) - n + 1, Len(a))

Min(a, b) == IF a <= b THEN a ELSE b

\* lines.join('\n')
RECURSIVE JoinLines(_)
JoinLines(lines) ==
    IF lines = <<>> THEN <<>>
    ELSE IF Len(lines) = 1 THEN lines[1]
    ELSE lines[1] \o <<"\n">> \o JoinLines(Tail(lines))

(***************************************************************************)
(* Events                                                                  *)
(***************************************************************************)
NoPayload == [undefined |-> TRUE]

\* createEvent(type, payload)
createEvent(type, payload) == [type |-> type, payload |-> payload]

\* The payload of network-step-finish is { tools: executedPrimitives }: it
\* holds the array itself, not a copy, so what a reader of the event sees
\* under "tools" is the array's content at the time of the read.
StepFinishEvent(executedPrimitives) ==
    createEvent("network-step-finish", [tools |-> executedPrimitives])

\* the events as a reader sees them once executedPrimitives holds prims
Resync(events, prims) ==
    [k \in 1..Len(events) |->
        IF events[k].type = "network-step-finish"
        THEN StepFinishEvent(prims)
        ELSE events[k]]

(***************************************************************************)
(* The routing model's turns (inputs)                                      *)
(***************************************************************************)
KnownTools == {"get_weather", "research_topic", "write_content", "city_research"}

\* the shapes of tool call the routing model returns here: each known tool
\* with the arguments its definition requires, a tool that is not defined,
\* a call whose arguments are not JSON, and a call that is no function call
CallKinds ==
    { [type |-> "function", name |-> "get_weather", arguments |-> "{location}"],
      [type |-> "function", name |-> "research_topic", arguments |-> "{topic}"],
      [type |-> "function", name |-> "write_content", arguments |-> "{topic,insights}"],
      [type |-> "function", name |-> "city_research", arguments |-> "{city}"],
      [type |-> "function", name |-> "translate", arguments |-> "{}"],
      [type |-> "function", name |-> "get_weather", arguments |-> "{not json"],
      [type |-> "custom", name |-> "custom_tool", arguments |-> "{}"] }

\* a tool call of a turn: the kind with the id the API gave it
ToolCall(kind, id) ==
    [id |-> id, type |-> kind.type, name |-> kind.name, arguments |-> kind.arguments]

Batches(n) == UNION { [1..k -> CallKinds] : k \in 1..n }

Contents == {NULL, <<"Here is the answer.">>}

\* completion.choices[0]?.message when choices is empty
NoMessage == [role |-> "none", content |-> NULL, tool_calls |-> <<>>]

\* an assistant message with the calls of batch, ids counted from base
Turn(content, batch, base) ==
    [role |-> "assistant", content |-> content,
     tool_calls |-> [k \in 1..Len(batch) |-> ToolCall(batch[k], base + k)]]

\* every turn the model may return when base calls were requested before
\* and at most room more may be
Turns(base, room) ==
    {NoMessage}
    \cup { Turn(c, <<>>, base) : c \in Contents }
    \cup { Turn(c, b, base) : c \in Contents, b \in Batches(room) }

\* JSON.parse(toolCall.function.arguments): the parsed object, or ParseError
\* when the text is not JSON
ParseError == [error |-> "SyntaxError"]

Parsed(location, topic, insights, style, city) ==
    [location |-> location, topic |-> topic, insights |-> insights,
     style |-> style, city |-> city]

JSONParse(text) ==
    CASE text = "{location}" -> Parsed(<<"Paris">>, NULL, NULL, NULL, NULL)
      [] text = "{topic}" -> Parsed(NULL, <<"Tea">>, NULL, NULL, NULL)
      [] text = "{topic,insights}" ->
            Parsed(NULL, <<"Tea">>, << <<"Tea is old">> >>, NULL, NULL)
      [] text = "{city}" -> Parsed(NULL, NULL, NULL, NULL, <<"Paris">>)
      [] text = "{}" -> Parsed(NULL, NULL, NULL, NULL, NULL)
      [] OTHER -> ParseError

(***************************************************************************)
(* Outcomes of the external calls (inputs)                                 *)
(***************************************************************************)
\* response.text() of wttr.in: a summary, or the body of a failed lookup
WeatherBodies == { <<"Sunny +20C 40% 5km/h", "\n">>, <<"Unknown location">> }

\* researchResult.insights
InsightLists == { <<>>, << <<"Tea is old">>, <<"Tea is green">> >> }

\* writeResult.content
WrittenContents == { <<"<report of 200-400 words>">> }

(***************************************************************************)
(* State                                                                   *)
(***************************************************************************)
systemPrompt == <<"You are a network of writers and researchers. ...">>

NoArgs == Parsed(NULL, NULL, NULL, NULL, NULL)

\* ctx.thread: the thread of the request's cookie
Threads == {"A", "B"}

MainThread == "A"

\* the keys the handlers keep in ctx.thread.state
Keys == {"conversation", "messages", "preferences", "history"}

\* the locals of the handler before an invocation
Fresh ==
    [agent |-> "network", pc |-> "idle", message |-> EMPTY, history |-> <<>>,
     messages |-> <<>>, events |-> <<>>, executedPrimitives |-> <<>>,
     assistantMessage |-> NoMessage, response |-> EMPTY,
     toolResults |-> <<>>, i |-> 0, args |-> NoArgs, insights |-> <<>>,
     thread |-> MainThread]

\* history variables of an invocation: the message lists passed to the chat
\* completion client, the turns it returned, the events as they were when
\* appended, the stored conversation as the invocation read it, and the calls
\* of sub-agents and workflows with their inputs, returns and rejections
FreshObs ==
    [sent |-> <<>>, turns |-> <<>>, appended |-> <<>>, prior |-> <<>>,
     subs |-> <<>>]

Absent == [present |-> FALSE, value |-> <<>>]

\* preferences ?? {}
NoPreferences == [name |-> NULL, interests |-> <<>>]

\* a key that was never set or was deleted
AbsentOf(key) ==
    IF key = "preferences"
    THEN [present |-> FALSE, value |-> NoPreferences]
    ELSE Absent

\* ctx.thread.state.get(key) ?? []
GetOrEmpty(st, key) == IF st[key].present THEN st[key].value ELSE <<>>

\* no invocation has run yet; last is what the invocation that persisted last
\* had read and exchanged, deleted the keys the last DELETE found and removed
NoRun ==
    [started |-> 0, completed |-> 0, calls |-> 0, chron |-> <<>>,
     last |-> [slot |-> 0, prior |-> <<>>, message |-> EMPTY,
               response |-> EMPTY],
     deleted |-> {}]

Init ==
    /\ inv = [p \in Procs |-> Fresh]
    /\ store = [t \in Threads |-> [k \in Keys |-> AbsentOf(k)]]
    /\ obs = [p \in Procs |-> FreshObs]
    /\ run = NoRun

\* the events of l2 that l did not hold yet, as they were appended
NewEvents(l, l2) == SubSeq(l2.events, Len(l.events) + 1, Len(l2.events))

\* the step of slot p from locals l to l2, passing the lists in sends to the
\* chat completion client, receiving the turns in replies from it, and
\* calling or hearing from sub-agents as in subs
StepLog(p, l, l2, sends, replies, subs) ==
    /\ inv' = [inv EXCEPT ![p] = l2]
    /\ obs' = [obs EXCEPT ![p] =
            [@ EXCEPT !.sent = @ \o sends, !.turns = @ \o replies,
                      !.appended = @ \o NewEvents(l, l2),
                      !.subs = @ \o subs]]

StepWith(p, l, l2, sends, replies) == StepLog(p, l, l2, sends, replies, <<>>)

Step(p, l, l2, sends) == StepWith(p, l, l2, sends, <<>>)

Push(l, e) == [l EXCEPT !.events = Append(@, e)]

(***************************************************************************)
(* The handler, up to the first model call                                 *)
(***************************************************************************)
\* the slot serves no request
Free(p) == inv[p].pc \in {"idle", "done", "failed"}

\* handler, lines 137-145: a new invocation on thread t with input message m,
\* up to await ctx.thread.state.get('conversation')
StartOn(p, t, m) ==
    /\ Free(p)
    /\ inv' = [inv EXCEPT ![p] =
            [Fresh EXCEPT !.pc = "get", !.message = m, !.thread = t,
                !.events = <<createEvent("network-start", [message |-> m])>>]]
    /\ obs' = [obs EXCEPT ![p] =
            [FreshObs EXCEPT
                !.appended = <<createEvent("network-start", [message |-> m])>>]]
    /\ run' = [run EXCEPT !.started = @ + 1]
    /\ UNCHANGED store

Start(p, m) == StartOn(p, MainThread, m)

\* messages, lines 167-174
InitialMessages(history, message) ==
    <<[role |-> "system", content |-> systemPrompt]>>
    \o [k \in 1..Len(history) |->
            [role |-> history[k].role, content |-> history[k].content]]
    \o <<[role |-> "user", content |-> message]>>

\* the history read and stored again at once with the user message
GetHistoryEager(p) ==
    LET l == inv[p]
        history == GetOrEmpty(store[l.thread], "conversation")
        messages == InitialMessages(history, l.message)
        l2 == Push([l EXCEPT !.pc = "call_first", !.history = history,
                        !.messages = messages],
                   createEvent("routing-agent-start", NoPayload))
    IN /\ l.pc = "get"
       /\ inv' = [inv EXCEPT ![p] = l2]
       /\ obs' = [obs EXCEPT ![p] =
                [@ EXCEPT !.sent = @ \o <<messages>>,
                          !.appended = @ \o NewEvents(l, l2),
                          !.prior = history]]
       /\ store' = [store EXCEPT ![l.thread]["conversation"] =
                [present |-> TRUE,
                 value |-> Append(history, [role |-> "user", content |-> l.message])]]
       /\ UNCHANGED run

\* lines 145-185: the history is read, the message list built and the first
\* chat completion requested
GetHistory(p) ==
    LET l == inv[p]
        history == GetOrEmpty(store[l.thread], "conversation")
        messages == InitialMessages(history, l.message)
        l2 == Push([l EXCEPT !.pc = "call_first", !.history = history,
                        !.messages = messages],
                   createEvent("routing-agent-start", NoPayload))
    IN /\ l.pc = "get"
       /\ inv' = [inv EXCEPT ![p] = l2]
       /\ obs' = [obs EXCEPT ![p] =
                [@ EXCEPT !.sent = @ \o <<messages>>,
                          !.appended = @ \o NewEvents(l, l2),
                          !.prior = history]]
       /\ UNCHANGED <<store, run>>

(***************************************************************************)
(* The routing loop                                                        *)
(***************************************************************************)
\* the loop with a cap of one round: it is left when a round was made before
WhileConditionOneRound(l) ==
    /\ l.assistantMessage # NoMessage
    /\ Len(l.assistantMessage.tool_calls) > 0
    /\ Len(l.messages) = Len(l.history) + 2

\* while (assistantMessage?.tool_calls && assistantMessage.tool_calls.length > 0)
WhileCondition(l) ==
    l.assistantMessage # NoMessage /\ Len(l.assistantMessage.tool_calls) > 0

\* the first response taken as it comes, without || ''
NextResponseRaw(l, am) ==
    IF l.pc = "call_first" THEN am.content
    ELSE OrElse(am.content, l.response)

\* the response kept from the first turn that has a text
NextResponseFirst(l, am) ==
    IF l.pc = "call_first" THEN OrElse(am.content, EMPTY)
    ELSE OrElse(l.response, am.content)

\* lines 190 and 235: response = content || '' after the first call,
\* response = content || response after a later one
NextResponse(l, am) ==
    IF l.pc = "call_first" THEN OrElse(am.content, EMPTY)
    ELSE OrElse(am.content, l.response)

\* the assistant entry pushed without the user entry
PushExchangeReplyOnly(history, message, response) ==
    history \o <<[role |-> "assistant", content |-> response]>>

\* lines 238-240: history.push(user), history.push(assistant)
PushExchange(history, message, response) ==
    history \o <<[role |-> "user", content |-> message],
                 [role |-> "assistant", content |-> response]>>

\* history.slice(0, 20): the first entries kept instead of the last
HistorySliceFromStart(history) ==
    IF Len(history) <= HistoryCap THEN history ELSE SubSeq(history, 1, HistoryCap)

\* line 243: history.slice(-20)
HistorySlice(history) == SliceLast(history, HistoryCap)

\* the loop head after a model turn: a batch starts, or the loop is left and
\* the handler runs up to await ctx.thread.state.set
LoopHead(l) ==
    IF WhileCondition(l)
    THEN [l EXCEPT !.pc = "batch", !.toolResults = <<>>, !.i = 1]
    ELSE [l EXCEPT !.pc = "set",
            !.history = PushExchange(l.history, l.message, l.response)]

\* the failed chat completion call made again
ModelFailRetry(p) ==
    /\ inv[p].pc \in {"call_first", "call_next"}
    /\ Step(p, inv[p], inv[p], <<inv[p].messages>>)
    /\ UNCHANGED <<store, run>>

\* lines 180-185, 226-231: the chat completion call fails
ModelFail(p) ==
    /\ inv[p].pc \in {"call_first", "call_next"}
    /\ Step(p, inv[p], [inv[p] EXCEPT !.pc = "failed"], <<>>)
    /\ UNCHANGED <<store, run>>

\* lines 187-193, 233-236: the chat completion call returns turn
ModelReply(p, turn) ==
    LET l == inv[p]
        l1 == Push(l, createEvent("routing-agent-end", NoPayload))
        l2 == [l1 EXCEPT !.assistantMessage = turn,
                         !.response = NextResponse(l, turn)]
    IN /\ l.pc \in {"call_first", "call_next"}
       /\ StepWith(p, l, LoopHead(l2), <<>>, <<turn>>)
       /\ run' = [run EXCEPT !.calls = @ + Len(turn.tool_calls)]
       /\ UNCHANGED store

\* the tool call the for loop is at
CurrentCall(l) == l.assistantMessage.tool_calls[l.i]

InBatch(l) == l.pc = "batch" /\ l.i <= Len(l.assistantMessage.tool_calls)

\* line 199: if (toolCall.type !== 'function') continue
SkipCall(p) ==
    LET l == inv[p] IN
    /\ InBatch(l)
    /\ CurrentCall(l).type # "function"
    /\ Step(p, l, [l EXCEPT !.i = @ + 1], <<>>)
    /\ UNCHANGED <<store, run>>

\* line 201: JSON.parse throws
ParseFail(p) ==
    LET l == inv[p] IN
    /\ InBatch(l)
    /\ CurrentCall(l).type = "function"
    /\ JSONParse(CurrentCall(l).arguments) = ParseError
    /\ Step(p, l, [l EXCEPT !.pc = "failed"], <<>>)
    /\ UNCHANGED <<store, run>>

\* executedPrimitives.unshift(toolName)
UnshiftPrimitive(prims, toolName) == <<toolName>> \o prims

\* line 203: executedPrimitives.push(toolName); the network-step-finish
\* events already in the list show the same array
PushPrimitive(prims, toolName) == Append(prims, toolName)

\* the default case without the tool's name
UnknownToolNoName(toolName) == <<"Unknown tool">>

\* line 121
UnknownToolResult(toolName) == <<"Unknown tool: ", toolName>>

\* lines 124-125 and 206-210: tool-execution-end, the result returned and
\* pushed to toolResults; the for loop goes on
FinishTool(l, result) ==
    LET toolCall == CurrentCall(l)
        l1 == Push(l, createEvent("tool-execution-end",
                    [tool |-> toolCall.name, result |-> Slice200(result)]))
    IN [l1 EXCEPT !.toolResults = Append(@,
                        [role |-> "tool", tool_call_id |-> toolCall.id,
                         content |-> result]),
                  !.i = @ + 1, !.pc = "batch", !.args = NoArgs,
                  !.insights = <<>>]

\* the tool started and not awaited: the for loop goes on at once
executeToolNoAwait(l, toolName, args) ==
    [Push(l, createEvent("tool-execution-start",
            [tool |-> toolName, args |-> args])) EXCEPT !.i = @ + 1]

\* lines 82-122: executeTool up to the await of the tool's case, or through
\* the default case
executeTool(l, toolName, args) ==
    LET l1 == Push(l, createEvent("tool-execution-start",
                    [tool |-> toolName, args |-> args]))
    IN CASE toolName = "get_weather" -> [l1 EXCEPT !.pc = "weather"]
         [] toolName = "research_topic" ->
                [Push(l1, createEvent("agent-execution-start",
                        [agent |-> "research"])) EXCEPT !.pc = "research"]
         [] toolName = "write_content" ->
                [Push(l1, createEvent("agent-execution-start",
                        [agent |-> "writing"])) EXCEPT !.pc = "writing"]
         [] toolName = "city_research" ->
                [Push(l1, createEvent("workflow-execution-start",
                        [workflow |-> "city"])) EXCEPT !.pc = "wf_research"]
         [] OTHER -> FinishTool(l1, UnknownToolResult(toolName))

\* an entry of the log of sub-agent and workflow calls
Call(agent, input) == [op |-> "call", agent |-> agent, value |-> input]

Return(agent, output) == [op |-> "return", agent |-> agent, value |-> output]

Throw(agent) == [op |-> "throw", agent |-> agent, value |-> NoPayload]

\* cityWorkflow, lines 303-305: the input of research.run
CityResearchInput(input) ==
    [topic |-> input.city
        \o <<" - history, culture, landmarks, and interesting facts">>]

\* the insights left out and the style of a blog post
CityWritingInputBlog(input, researchResult) ==
    [topic |-> input.city, insights |-> <<>>, style |-> <<"blog">>]

\* cityWorkflow, lines 311-315: the input of writing.run
CityWritingInput(input, researchResult) ==
    [topic |-> input.city, insights |-> researchResult.insights,
     style |-> <<"report">>]

\* cityWorkflow, lines 320-329: the value returned
CityOutput(input, researchResult, writingResult) ==
    [city |-> input.city,
     research |-> [insights |-> researchResult.insights],
     report |-> [content |-> writingResult.content]]

\* lines 89, 95, 102-106, 114-116 and 303-305: the call the tool's case
\* awaits, with its input
SubCalls(toolName, args) ==
    CASE toolName = "get_weather" ->
            <<Call("getWeather", [location |-> args.location])>>
      [] toolName = "research_topic" ->
            <<Call("research", [topic |-> args.topic])>>
      [] toolName = "write_content" ->
            <<Call("writing", [topic |-> args.topic,
                               insights |-> args.insights,
                               style |-> OrElse(args.style, <<"blog">>)])>>
      [] toolName = "city_research" ->
            <<Call("cityWorkflow", [city |-> args.city]),
              Call("research", CityResearchInput([city |-> args.city]))>>
      [] OTHER -> <<>>

\* lines 200-204: a function call with parsable arguments is dispatched
Dispatch(p) ==
    LET l == inv[p]
        toolCall == CurrentCall(l)
        args == JSONParse(toolCall.arguments)
        prims == PushPrimitive(l.executedPrimitives, toolCall.name)
        l1 == [l EXCEPT !.executedPrimitives = prims, !.args = args,
                        !.events = Resync(@, prims)]
    IN /\ InBatch(l)
       /\ toolCall.type = "function"
       /\ args # ParseError
       /\ StepLog(p, l, executeTool(l1, toolCall.name, args), <<>>, <<>>,
                   SubCalls(toolCall.name, args))
       /\ UNCHANGED <<store, run>>

\* only the tool results pushed, the assistant message left out
AppendResultsOnly(messages, am, toolResults) == messages \o toolResults

\* lines 216-221: messages.push(assistant message), messages.push(...toolResults)
AppendRound(messages, am, toolResults) ==
    messages
    \o <<[role |-> "assistant", content |-> am.content,
          tool_calls |-> am.tool_calls]>>
    \o toolResults

\* lines 213-231: the batch is done; network-step-finish, the message list
\* extended and the next chat completion requested
EndBatch(p) ==
    LET l == inv[p]
        messages == AppendRound(l.messages, l.assistantMessage, l.toolResults)
        l1 == Push(l, StepFinishEvent(l.executedPrimitives))
        l2 == Push([l1 EXCEPT !.messages = messages, !.pc = "call_next",
                              !.toolResults = <<>>, !.i = 0],
                   createEvent("routing-agent-start", NoPayload))
    IN /\ l.pc = "batch"
       /\ l.i > Len(l.assistantMessage.tool_calls)
       /\ Step(p, l, l2, <<messages>>)
       /\ UNCHANGED <<store, run>>

\* the event of the end of a step in place of network-complete
CompleteEventAsStep(response) ==
    createEvent("network-step-finish", [response |-> Slice200(response)])

\* line 245
CompleteEvent(response) ==
    createEvent("network-complete", [response |-> Slice200(response)])

\* the exchange pushed onto the conversation as it is stored now
StoredMerged(l, stored) ==
    HistorySlice(PushExchange(stored, l.message, l.response))

\* line 243: the value stored is the slice of the handler's own list, read at
\* line 145 and extended at lines 239-240
Stored(l, stored) == HistorySlice(l.history)

\* lines 243-256: the capped history is stored, network-complete emitted and
\* the result returned
SetHistory(p) ==
    LET l == inv[p]
        l1 == Push([l EXCEPT !.pc = "done"], CompleteEvent(l.response))
    IN /\ l.pc = "set"
       /\ store' = [store EXCEPT ![l.thread]["conversation"] =
                [present |-> TRUE,
                 value |-> Stored(l, GetOrEmpty(store[l.thread], "conversation"))]]
       /\ Step(p, l, l1, <<>>)
       /\ run' = [run EXCEPT !.completed = @ + 1,
                    !.last = [slot |-> p, prior |-> obs[p].prior,
                              message |-> l.message, response |-> l.response],
                    !.chron = @ \o <<[role |-> "user", content |-> l.message],
                                     [role |-> "assistant", content |-> l.response]>>]

(***************************************************************************)
(* The tools                                                               *)
(***************************************************************************)
\* `${value}` of a value that may be undefined
Interp(v) == IF v = NULL THEN <<"undefined">> ELSE v

\* tools.ts, getWeather: the lookup answered with body
getWeather(location, body) == [location |-> location, weather |-> Trim(body)]

\* line 90
WeatherResult(weather) ==
    <<"Weather in ">> \o Interp(weather.location) \o <<": ">> \o weather.weather

\* line 97
ResearchResult(topic, insights) ==
    <<"Research on \"">> \o Interp(topic) \o <<"\":\n">>
    \o JoinLines([k \in 1..Len(insights) |-> <<"<bullet> ">> \o insights[k]])

\* lines 89-91: getWeather returns
WeatherReturn(p, body) ==
    LET l == inv[p]
        weather == getWeather(l.args.location, body)
    IN /\ l.pc = "weather"
       /\ StepLog(p, l, FinishTool(l, WeatherResult(weather)), <<>>, <<>>,
                   <<Return("getWeather", weather)>>)
       /\ UNCHANGED <<store, run>>

\* research.run returns and no agent-execution-end is pushed
ResearchReturnNoEvent(p, insights) ==
    LET l == inv[p]
    IN /\ l.pc = "research"
       /\ StepLog(p, l, FinishTool(l, ResearchResult(l.args.topic, insights)),
                   <<>>, <<>>, <<Return("research", [insights |-> insights])>>)
       /\ UNCHANGED <<store, run>>

\* lines 95-98: research.run returns
ResearchReturn(p, insights) ==
    LET l == inv[p]
        l1 == Push(l, createEvent("agent-execution-end", [agent |-> "research"]))
    IN /\ l.pc = "research"
       /\ StepLog(p, l, FinishTool(l1, ResearchResult(l.args.topic, insights)),
                   <<>>, <<>>, <<Return("research", [insights |-> insights])>>)
       /\ UNCHANGED <<store, run>>

\* lines 102-109: writing.run returns
WritingReturn(p, content) ==
    LET l == inv[p]
        l1 == Push(l, createEvent("agent-execution-end", [agent |-> "writing"]))
    IN /\ l.pc = "writing"
       /\ StepLog(p, l, FinishTool(l1, content), <<>>, <<>>,
                   <<Return("writing", [content |-> content])>>)
       /\ UNCHANGED <<store, run>>

\* cityWorkflow, lines 303-315: research.run returns and writing.run is called
WorkflowResearchReturn(p, insights) ==
    LET l == inv[p]
        researchResult == [insights |-> insights]
    IN /\ l.pc = "wf_research"
       /\ StepLog(p, l,
                   [l EXCEPT !.pc = "wf_writing",
                             !.insights = researchResult.insights],
                   <<>>, <<>>,
                   <<Return("research", researchResult),
                     Call("writing",
                          CityWritingInput([city |-> l.args.city],
                                           researchResult))>>)
       /\ UNCHANGED <<store, run>>

\* cityWorkflow, lines 311-330, and executeTool, lines 116-118: writing.run
\* returns, the workflow returns and its report is the tool's result
WorkflowWritingReturn(p, content) ==
    LET l == inv[p]
        writingResult == [content |-> content]
        cityResult == CityOutput([city |-> l.args.city],
                                 [insights |-> l.insights], writingResult)
        l1 == Push(l, createEvent("workflow-execution-end", [workflow |-> "city"]))
    IN /\ l.pc = "wf_writing"
       /\ StepLog(p, l, FinishTool(l1, cityResult.report.content), <<>>, <<>>,
                   <<Return("writing", writingResult),
                     Return("cityWorkflow", cityResult)>>)
       /\ UNCHANGED <<store, run>>

AwaitingTool == {"weather", "research", "writing", "wf_research", "wf_writing"}

\* the rejections of a failing call on its way up: cityWorkflow catches
\* nothing of its sub-agents
Thrown(pc) ==
    CASE pc = "weather" -> <<Throw("getWeather")>>
      [] pc = "research" -> <<Throw("research")>>
      [] pc = "writing" -> <<Throw("writing")>>
      [] pc = "wf_research" -> <<Throw("research"), Throw("cityWorkflow")>>
      [] pc = "wf_writing" -> <<Throw("writing"), Throw("cityWorkflow")>>

\* a failed research caught in the workflow, writing.run called without it
AfterThrowCaught(l) ==
    IF l.pc = "wf_research"
    THEN [l EXCEPT !.pc = "wf_writing", !.insights = <<>>]
    ELSE [l EXCEPT !.pc = "failed"]

\* the rejection caught in executeTool and reported as the tool's result
AfterThrowReported(l) == FinishTool(l, <<"Error: the tool failed">>)

\* lines 89-116, 204 and 303-315: no try around the awaited call, in
\* executeTool, in cityWorkflow or in the handler
AfterThrow(l) == [l EXCEPT !.pc = "failed"]

\* the awaited call of a tool rejects (fetch, research.run, writing.run):
\* nothing on the way up catches it and the invocation fails
ToolThrow(p) ==
    /\ inv[p].pc \in AwaitingTool
    /\ StepLog(p, inv[p], AfterThrow(inv[p]), <<>>, <<>>, Thrown(inv[p].pc))
    /\ UNCHANGED <<store, run>>

(***************************************************************************)
(* Specifications                                                          *)
(***************************************************************************)
Messages == { <<"What is the weather in Paris?">> }

\* one invocation at a time on the thread, every kind of turn
Next ==
    \E p \in SeqProcs :
        \/ /\ run.started < MaxInvocations
           /\ \E m \in Messages : Start(p, m)
        \/ GetHistory(p)
        \/ ModelFail(p)
        \/ \E turn \in Turns(run.calls, MaxCalls - run.calls) : ModelReply(p, turn)
        \/ SkipCall(p)
        \/ ParseFail(p)
        \/ Dispatch(p)
        \/ \E body \in WeatherBodies : WeatherReturn(p, body)
        \/ \E insights \in InsightLists : ResearchReturn(p, insights)
        \/ \E content \in WrittenContents : WritingReturn(p, content)
        \/ \E insights \in InsightLists : WorkflowResearchReturn(p, insights)
        \/ \E content \in WrittenContents : WorkflowWritingReturn(p, content)
        \/ ToolThrow(p)
        \/ EndBatch(p)
        \/ SetHistory(p)

Spec == Init /\ [][Next]_vars

\* Long conversations: one invocation at a time, the n-th completed one with
\* a message and a final text of its own, at most one get_weather round each
HistMessage(n) == <<"user message ", ToString(n)>>

HistTurns(l, n) ==
    { Turn(<<"reply ", ToString(n)>>, <<>>, run.calls) }
    \cup IF l.executedPrimitives = <<>>
         THEN { Turn(NULL,
                     [k \in 1..1 |-> [type |-> "function", name |-> "get_weather",
                                      arguments |-> "{location}"]],
                     run.calls) }
         ELSE {}

NextHist ==
    \E p \in SeqProcs :
        \/ /\ run.started < HistInvocations
           /\ Start(p, HistMessage(run.completed + 1))
        \/ GetHistory(p)
        \/ ModelFail(p)
        \/ \E turn \in HistTurns(inv[p], run.completed + 1) : ModelReply(p, turn)
        \/ Dispatch(p)
        \/ \E body \in WeatherBodies : WeatherReturn(p, body)
        \/ ToolThrow(p)
        \/ EndBatch(p)
        \/ SetHistory(p)

SpecHist == Init /\ [][NextHist]_vars

\* Long loops: one invocation, rounds of one call each for as long as the
\* model asks for them, and every awaited call settles
LoopCallKinds ==
    { [type |-> "function", name |-> "get_weather", arguments |-> "{location}"],
      [type |-> "function", name |-> "translate", arguments |-> "{}"] }

\* the content of a turn is missing, empty or a text of that turn
LoopTurns(o) ==
    LET contents == {NULL, EMPTY, <<"text of turn ", ToString(Len(o.turns) + 1)>>}
    IN {NoMessage}
       \cup { Turn(c, <<>>, run.calls) : c \in contents }
       \cup IF Len(o.turns) < MaxRounds
            THEN { Turn(c, [k \in 1..1 |-> kind], run.calls) :
                       c \in contents, kind \in LoopCallKinds }
            ELSE {}

ToolSettles(p) ==
    \/ \E body \in WeatherBodies : WeatherReturn(p, body)
    \/ ToolThrow(p)

NextLoop ==
    \E p \in SeqProcs :
        \/ /\ run.started = 0
           /\ \E m \in Messages : Start(p, m)
        \/ GetHistory(p)
        \/ ModelFail(p)
        \/ \E turn \in LoopTurns(obs[p]) : ModelReply(p, turn)
        \/ Dispatch(p)
        \/ ToolSettles(p)
        \/ EndBatch(p)
        \/ SetHistory(p)

\* a continuation runs once the promise it awaits has settled, and the
\* weather lookup and the state store settle every call
FairLoop ==
    /\ Init
    /\ [][NextLoop]_vars
    /\ \A p \in SeqProcs :
            /\ WF_vars(Dispatch(p))
            /\ WF_vars(ToolSettles(p))
            /\ WF_vars(EndBatch(p))
            /\ WF_vars(SetHistory(p))

(***************************************************************************)
(* The Day Planner                                                         *)
(***************************************************************************)
\* ctx.thread.state.push(key, item, capacity): the item appended and the list
\* cut to its most recent capacity items
StatePush(st, key, item, capacity) ==
    [st EXCEPT ![key] =
        [present |-> TRUE,
         value |-> SliceLast(Append(GetOrEmpty(st, key), item), capacity)]]

\* a JavaScript value that is no array
Undefined == [kind |-> "undefined"]

Array(items) == [kind |-> "array", items |-> items]

Block(name, n) ==
    [name |-> name,
     activities |-> Array([k \in 1..n |-> [name |-> <<"activity ", ToString(k)>>]])]

\* lines 126-142: the plan used when the content does not parse
PlaceholderPlan ==
    [kind |-> "object",
     plan |-> Array(<<[name |-> "Morning",
                       activities |-> Array(<<[name |-> <<"Plan your day">>]>>)]>>),
     summary |-> <<"A simple day plan to get started.">>]

\* completion.choices[0]?.message?.content: missing, or the text of the model
PlanContents ==
    {"<missing>", "Sorry, I cannot plan that.", "{plan:[Morning:2,Evening:1],summary}",
     "{plan:[],summary}", "{summary}", "{plan:[Morning]}", "null"}

\* line 124: JSON.parse(content)
PlanParse(content) ==
    CASE content = "{plan:[Morning:2,Evening:1],summary}" ->
            [kind |-> "object",
             plan |-> Array(<<Block("Morning", 2), Block("Evening", 1)>>),
             summary |-> <<"A day of two parts.">>]
      [] content = "{plan:[],summary}" ->
            [kind |-> "object", plan |-> Array(<<>>),
             summary |-> <<"Nothing to do.">>]
      [] content = "{summary}" ->
            [kind |-> "object", plan |-> Undefined,
             summary |-> <<"A day.">>]
      [] content = "{plan:[Morning]}" ->
            [kind |-> "object",
             plan |-> Array(<<[name |-> "Morning", activities |-> Undefined]>>),
             summary |-> NULL]
      [] content = "{}" ->
            [kind |-> "object", plan |-> Undefined, summary |-> NULL]
      [] content = "null" -> [kind |-> "null"]
      [] OTHER -> ParseError

\* lines 122-143: the parsed content, or the placeholder when parsing throws
ParsedPlan(content) ==
    IF PlanParse(content) = ParseError THEN PlaceholderPlan
    ELSE PlanParse(content)

\* lines 145-148: parsedPlan.plan.reduce(...) throws a TypeError
ReduceThrows(parsedPlan) ==
    \/ parsedPlan.kind # "object"
    \/ parsedPlan.plan.kind # "array"
    \/ \E k \in 1..Len(parsedPlan.plan.items) :
            parsedPlan.plan.items[k].activities.kind # "array"

RECURSIVE SumActivities(_)
SumActivities(blocks) ==
    IF blocks = <<>> THEN 0
    ELSE Len(blocks[1].activities.items) + SumActivities(Tail(blocks))

\* lines 145-148
TotalActivities(parsedPlan) == SumActivities(parsedPlan.plan.items)

\* lines 74-117: a plan request on thread t, up to the chat completion call
PlanStart(p, t, prompt) ==
    /\ Free(p)
    /\ inv' = [inv EXCEPT ![p] =
            [agent |-> "day-planner", pc |-> "plan_call", thread |-> t,
             prompt |-> prompt, answered |-> FALSE, content |-> "",
             parsedPlan |-> [kind |-> "undefined"], totalActivities |-> 0,
             newEntry |-> [kind |-> "undefined"], history |-> <<>>]]
    /\ obs' = [obs EXCEPT ![p] = FreshObs]
    /\ run' = [run EXCEPT !.started = @ + 1]
    /\ UNCHANGED store

\* lines 110-117: the chat completion call fails
PlanCallFail(p) ==
    /\ inv[p].pc = "plan_call"
    /\ inv' = [inv EXCEPT ![p].pc = "failed"]
    /\ UNCHANGED <<store, obs, run>>

\* lines 119-164: the completion returns choice as its content; the content
\* is parsed, the activities counted and the history entry pushed
PlanCompletion(p, choice) ==
    LET l == inv[p]
        content == IF choice = "<missing>" THEN "{}" ELSE choice
        parsedPlan == ParsedPlan(content)
        l1 == [l EXCEPT !.answered = TRUE, !.content = content,
                        !.parsedPlan = parsedPlan]
    IN /\ l.pc = "plan_call"
       /\ inv' = [inv EXCEPT ![p] =
                IF ReduceThrows(parsedPlan)
                THEN [l1 EXCEPT !.pc = "failed"]
                ELSE [l1 EXCEPT !.pc = "plan_push",
                        !.totalActivities = TotalActivities(parsedPlan),
                        !.newEntry = [prompt |-> l.prompt,
                                      activityCount |-> TotalActivities(parsedPlan)]]]
       /\ UNCHANGED <<store, obs, run>>

\* the history entry pushed onto the one list all threads share
PlanPushShared(p) ==
    LET l == inv[p] IN
    /\ l.pc = "plan_push"
    /\ store' = [store EXCEPT ![MainThread] =
                    StatePush(@, "history", l.newEntry, PlanHistoryCap)]
    /\ inv' = [inv EXCEPT ![p].pc = "plan_get"]
    /\ UNCHANGED <<obs, run>>

\* line 164: ctx.thread.state.push('history', newEntry, 5)
PlanPush(p) ==
    LET l == inv[p] IN
    /\ l.pc = "plan_push"
    /\ store' = [store EXCEPT ![l.thread] =
                    StatePush(@, "history", l.newEntry, PlanHistoryCap)]
    /\ inv' = [inv EXCEPT ![p].pc = "plan_get"]
    /\ UNCHANGED <<obs, run>>

\* lines 165-181: the history is read and the result returned
PlanGet(p) ==
    LET l == inv[p] IN
    /\ l.pc = "plan_get"
    /\ inv' = [inv EXCEPT ![p] =
            [l EXCEPT !.pc = "done",
                      !.history = GetOrEmpty(store[l.thread], "history")]]
    /\ run' = [run EXCEPT !.completed = @ + 1]
    /\ UNCHANGED <<store, obs>>

\* the result record of a plan request that is done
PlanResult(l) ==
    [plan |-> l.parsedPlan.plan, summary |-> l.parsedPlan.summary,
     totalActivities |-> l.totalActivities, history |-> l.history,
     threadId |-> l.thread]

PlanRequests == 3

PlanPrompts == { <<"Plan my work day">> }

\* plan requests on one thread, one at a time
NextPlan ==
    \E p \in SeqProcs :
        \/ /\ run.started < PlanRequests
           /\ \E prompt \in PlanPrompts : PlanStart(p, MainThread, prompt)
        \/ PlanCallFail(p)
        \/ \E choice \in PlanContents : PlanCompletion(p, choice)
        \/ PlanPush(p)
        \/ PlanGet(p)

SpecPlan == Init /\ [][NextPlan]_vars

(***************************************************************************)
(* The Memory Agent and its history routes                                 *)
(***************************************************************************)
\* ctx.thread.state.delete(key)
StateDelete(st, key) == [st EXCEPT ![key] = AbsentOf(key)]

\* /my name is (\w+)/i and the other name patterns, on a message of a phrase
\* and a word; a word of one letter is no name
NamePhrases == {"my name is ", "i'm ", "call me ", "i am "}

InterestPhrases == {"i like ", "i love ", "i enjoy "}

OneLetterWords == {"J"}

\* match[1].toLowerCase()
ToLowerCase(word) == IF word = "Chess" THEN "chess" ELSE word

Elements(q) == { q[k] : k \in 1..Len(q) }

\* lines 53-116 (names and interests)
extractPreferences(userMessage, existing) ==
    LET named == /\ Len(userMessage) = 2
                 /\ userMessage[1] \in NamePhrases
                 /\ userMessage[2] \notin OneLetterWords
        liked == /\ Len(userMessage) = 2
                 /\ userMessage[1] \in InterestPhrases
        interest == ToLowerCase(userMessage[2])
        interests == IF liked /\ interest \notin Elements(existing.interests)
                     THEN Append(existing.interests, interest)
                     ELSE existing.interests
    IN [name |-> IF named THEN <<userMessage[2]>> ELSE existing.name,
        interests |-> SubSeq(interests, 1, Min(Len(interests), 10))]

\* lines 119-155: the context section of the system prompt
buildSystemPrompt(messages, preferences) ==
    <<"You are a helpful assistant with memory. ...">>
    \o (IF preferences.name # NULL
        THEN <<"\n- Name: ">> \o preferences.name ELSE <<>>)
    \o (IF preferences.interests # <<>>
        THEN <<"\n- Interests: ">> \o preferences.interests ELSE <<>>)
    \o (IF Len(messages) > 0
        THEN <<"\n\nRecent conversation: ", ToString(Len(messages)),
               ToString(Min(Len(messages), 5))>>
        ELSE <<>>)

\* lines 163-171: a chat request on thread t, up to the read of 'messages'
MemStart(p, t, message) ==
    /\ Free(p)
    /\ inv' = [inv EXCEPT ![p] =
            [agent |-> "memory", pc |-> "m_get_messages", thread |-> t,
             message |-> message, existingMessages |-> <<>>,
             preferences |-> NoPreferences, response |-> EMPTY,
             updatedPreferences |-> NoPreferences, messageCount |-> 0]]
    /\ obs' = [obs EXCEPT ![p] = FreshObs]
    /\ run' = [run EXCEPT !.started = @ + 1]
    /\ UNCHANGED store

\* line 171
MemGetMessages(p) ==
    LET l == inv[p] IN
    /\ l.pc = "m_get_messages"
    /\ inv' = [inv EXCEPT ![p] =
            [l EXCEPT !.pc = "m_get_preferences",
                      !.existingMessages = GetOrEmpty(store[l.thread], "messages")]]
    /\ UNCHANGED <<store, obs, run>>

\* lines 172-203: the preferences are read, the messages of the request
\* built and the chat completion requested
MemGetPreferences(p) ==
    LET l == inv[p]
        preferences == IF store[l.thread]["preferences"].present
                       THEN store[l.thread]["preferences"].value
                       ELSE NoPreferences
        openaiMessages ==
            <<[role |-> "system",
               content |-> buildSystemPrompt(l.existingMessages, preferences)]>>
            \o SliceLast(l.existingMessages, 10)
            \o <<[role |-> "user", content |-> l.message]>>
    IN /\ l.pc = "m_get_preferences"
       /\ inv' = [inv EXCEPT ![p] =
                [l EXCEPT !.pc = "m_call", !.preferences = preferences]]
       /\ obs' = [obs EXCEPT ![p].sent = @ \o <<openaiMessages>>]
       /\ UNCHANGED <<store, run>>

\* lines 200-203: the chat completion call fails
MemCallFail(p) ==
    /\ inv[p].pc = "m_call"
    /\ inv' = [inv EXCEPT ![p].pc = "failed"]
    /\ UNCHANGED <<store, obs, run>>

\* lines 205-213: the completion returns content; the user message is
\* handed to the store
MemReply(p, content) ==
    LET l == inv[p]
        response == IF content = NULL
                    THEN <<"I apologize, I was unable to generate a response.">>
                    ELSE content
    IN /\ l.pc = "m_call"
       /\ inv' = [inv EXCEPT ![p] =
                [l EXCEPT !.pc = "m_push_user", !.response = response]]
       /\ UNCHANGED <<store, obs, run>>

\* state.push('messages', message) without a capacity
PushMessageUncapped(st, message) ==
    StatePush(st, "messages", message, 2 * MAX_MESSAGES)

\* lines 213, 221: ctx.thread.state.push('messages', message, MAX_MESSAGES)
PushMessage(st, message) == StatePush(st, "messages", message, MAX_MESSAGES)

\* lines 208-221: the user message is pushed, the assistant message handed
\* to the store
MemPushUser(p) ==
    LET l == inv[p]
        userMessage == [role |-> "user", content |-> l.message]
    IN /\ l.pc = "m_push_user"
       /\ store' = [store EXCEPT ![l.thread] = PushMessage(@, userMessage)]
       /\ inv' = [inv EXCEPT ![p].pc = "m_push_assistant"]
       /\ run' = [run EXCEPT !.chron = Append(@, userMessage)]
       /\ UNCHANGED obs

\* lines 216-231: the assistant message is pushed, the preferences extracted
\* and, when they changed, handed to the store
MemPushAssistant(p) ==
    LET l == inv[p]
        assistantMessage == [role |-> "assistant", content |-> l.response]
        updatedPreferences == extractPreferences(l.message, l.preferences)
    IN /\ l.pc = "m_push_assistant"
       /\ store' = [store EXCEPT ![l.thread] = PushMessage(@, assistantMessage)]
       /\ inv' = [inv EXCEPT ![p] =
                [l EXCEPT !.updatedPreferences = updatedPreferences,
                          !.pc = IF updatedPreferences # l.preferences
                                 THEN "m_set_preferences" ELSE "m_final"]]
       /\ run' = [run EXCEPT !.chron = Append(@, assistantMessage)]
       /\ UNCHANGED obs

\* line 226: ctx.thread.state.set('preferences', updatedPreferences)
MemSetPreferences(p) ==
    LET l == inv[p] IN
    /\ l.pc = "m_set_preferences"
    /\ store' = [store EXCEPT ![l.thread]["preferences"] =
                    [present |-> TRUE, value |-> l.updatedPreferences]]
    /\ inv' = [inv EXCEPT ![p].pc = "m_final"]
    /\ UNCHANGED <<obs, run>>

\* lines 231-244: the messages are read again and the result returned
MemFinal(p) ==
    LET l == inv[p] IN
    /\ l.pc = "m_final"
    /\ inv' = [inv EXCEPT ![p] =
            [l EXCEPT !.pc = "done",
                      !.messageCount = Len(GetOrEmpty(store[l.thread], "messages"))]]
    /\ run' = [run EXCEPT !.completed = @ + 1]
    /\ UNCHANGED <<store, obs>>

\* the result of a history route: preferences are undefined without keys
HistoryResult(messages, preferences) ==
    [messages |-> messages,
     preferences |-> IF preferences # NoPreferences
                     THEN [defined |-> TRUE, value |-> preferences]
                     ELSE [defined |-> FALSE, value |-> NoPreferences],
     messageCount |-> Len(messages)]

\* api, lines 27-28 and 40-41: GET or DELETE /history on thread t
RouteStart(p, t, method) ==
    /\ Free(p)
    /\ inv' = [inv EXCEPT ![p] =
            [agent |-> "history", thread |-> t, method |-> method,
             pc |-> IF method = "GET" THEN "h_get_messages"
                    ELSE "h_delete_messages",
             messages |-> <<>>, result |-> HistoryResult(<<>>, NoPreferences)]]
    /\ obs' = [obs EXCEPT ![p] = FreshObs]
    /\ UNCHANGED <<store, run>>

\* api, line 28
HistGetMessages(p) ==
    LET l == inv[p] IN
    /\ l.pc = "h_get_messages"
    /\ inv' = [inv EXCEPT ![p] =
            [l EXCEPT !.pc = "h_get_preferences",
                      !.messages = GetOrEmpty(store[l.thread], "messages")]]
    /\ UNCHANGED <<store, obs, run>>

\* api, lines 29-36
HistGetPreferences(p) ==
    LET l == inv[p]
        preferences == IF store[l.thread]["preferences"].present
                       THEN store[l.thread]["preferences"].value
                       ELSE NoPreferences
    IN /\ l.pc = "h_get_preferences"
       /\ inv' = [inv EXCEPT ![p] =
                [l EXCEPT !.pc = "done",
                          !.result = HistoryResult(l.messages, preferences)]]
       /\ UNCHANGED <<store, obs, run>>

\* api, line 41: ctx.thread.state.delete('messages')
HistDeleteMessages(p) ==
    LET l == inv[p] IN
    /\ l.pc = "h_delete_messages"
    /\ store' = [store EXCEPT ![l.thread] = StateDelete(@, "messages")]
    /\ inv' = [inv EXCEPT ![p].pc = "h_delete_preferences"]
    /\ run' = [run EXCEPT !.chron = <<>>,
                 !.deleted = IF store[l.thread]["messages"].present
                             THEN {"messages"} ELSE {}]
    /\ UNCHANGED obs

\* the route returns with the preferences left in the store
HistDeleteNothing(p) ==
    /\ inv[p].pc = "h_delete_preferences"
    /\ inv' = [inv EXCEPT ![p].pc = "done"]
    /\ UNCHANGED <<store, obs, run>>

\* api, lines 42-49: ctx.thread.state.delete('preferences') and the result
HistDeletePreferences(p) ==
    LET l == inv[p] IN
    /\ l.pc = "h_delete_preferences"
    /\ store' = [store EXCEPT ![l.thread] = StateDelete(@, "preferences")]
    /\ inv' = [inv EXCEPT ![p] =
            [l EXCEPT !.pc = "done",
                      !.result = HistoryResult(<<>>, NoPreferences)]]
    /\ run' = [run EXCEPT !.deleted =
                    IF store[l.thread]["preferences"].present
                    THEN @ \cup {"preferences"} ELSE @]
    /\ UNCHANGED obs

\* Chat and history requests on one thread, one at a time: the n-th chat
\* has its own message, the first two may tell a name or an interest, and
\* the model may answer the first without content
MemRequests == 12

MemMessages(n) ==
    {<<"message ", ToString(n)>>}
    \cup (IF n = 1 THEN {<<"my name is ", "Ada">>, <<"call me ", "J">>} ELSE {})
    \cup (IF n = 2 THEN {<<"i love ", "Chess">>} ELSE {})

MemReplies(n) ==
    {<<"reply ", ToString(n)>>} \cup (IF n = 1 THEN {NULL} ELSE {})

NextMem ==
    \E p \in SeqProcs :
        \/ /\ run.started < MemRequests
           /\ \E m \in MemMessages(run.completed + 1) : MemStart(p, MainThread, m)
        \/ MemGetMessages(p)
        \/ MemGetPreferences(p)
        \/ MemCallFail(p)
        \/ \E c \in MemReplies(run.completed + 1) : MemReply(p, c)
        \/ MemPushUser(p)
        \/ MemPushAssistant(p)
        \/ MemSetPreferences(p)
        \/ MemFinal(p)
        \/ \E method \in {"GET", "DELETE"} : RouteStart(p, MainThread, method)
        \/ HistGetMessages(p)
        \/ HistGetPreferences(p)
        \/ HistDeleteMessages(p)
        \/ HistDeletePreferences(p)

SpecMem == Init /\ [][NextMem]_vars

(***************************************************************************)
(* The history routes of the Network Agent                                 *)
(***************************************************************************)
\* GET or DELETE /network/history on thread t, up to the store's call
NetRouteStart(p, t, method) ==
    /\ Free(p)
    /\ inv' = [inv EXCEPT ![p] =
            [agent |-> "network-history", thread |-> t, method |-> method,
             pc |-> IF method = "GET" THEN "n_get" ELSE "n_delete",
             result |-> [conversation |-> <<>>, threadId |-> t]]]
    /\ obs' = [obs EXCEPT ![p] = FreshObs]
    /\ UNCHANGED <<store, run>>

\* GET /network/history: the conversation read and returned
NetHistoryGet(p) ==
    LET l == inv[p] IN
    /\ l.pc = "n_get"
    /\ inv' = [inv EXCEPT ![p] =
            [l EXCEPT !.pc = "done",
                      !.result = [conversation |->
                                    GetOrEmpty(store[l.thread], "conversation"),
                                  threadId |-> l.thread]]]
    /\ UNCHANGED <<store, obs, run>>

\* the route returns an empty conversation and leaves the stored one
NetHistoryDeleteKeeps(p) ==
    LET l == inv[p] IN
    /\ l.pc = "n_delete"
    /\ inv' = [inv EXCEPT ![p] =
            [l EXCEPT !.pc = "done",
                      !.result = [conversation |-> <<>>, threadId |-> l.thread]]]
    /\ UNCHANGED <<store, obs, run>>

\* DELETE /network/history: the conversation deleted, an empty one returned
NetHistoryDelete(p) ==
    LET l == inv[p] IN
    /\ l.pc = "n_delete"
    /\ store' = [store EXCEPT ![l.thread] = StateDelete(@, "conversation")]
    /\ inv' = [inv EXCEPT ![p] =
            [l EXCEPT !.pc = "done",
                      !.result = [conversation |-> <<>>, threadId |-> l.thread]]]
    /\ UNCHANGED <<obs, run>>

\* Overlap: two slots serve requests on the same thread, each invocation
\* with its own message and answered by one turn of text
ConcInvocations == 3

ConcMessage(n) == <<"user message ", ToString(n)>>

ConcTurn(l) == Turn(<<"reply to ">> \o l.message, <<>>, 0)

\* the conversation ten earlier exchanges have left on the thread
EarlierConversation ==
    [k \in 1..HistoryCap |->
        IF k % 2 = 1
        THEN [role |-> "user",
              content |-> <<"earlier message ", ToString((k + 1) \div 2)>>]
        ELSE [role |-> "assistant",
              content |-> <<"earlier reply ", ToString(k \div 2)>>]]

InitConc ==
    /\ inv = [p \in Procs |-> Fresh]
    /\ \E c \in {Absent, [present |-> TRUE, value |-> EarlierConversation]} :
            store = [t \in Threads |-> [k \in Keys |->
                        IF t = MainThread /\ k = "conversation"
                        THEN c ELSE AbsentOf(k)]]
    /\ obs = [p \in Procs |-> FreshObs]
    /\ run = NoRun

NextConc ==
    \E p \in Procs :
        \/ /\ run.started < ConcInvocations
           /\ Start(p, ConcMessage(run.started + 1))
        \/ GetHistory(p)
        \/ ModelFail(p)
        \/ ModelReply(p, ConcTurn(inv[p]))
        \/ SetHistory(p)

SpecConc == InitConc /\ [][NextConc]_vars

\* Overlap with the history routes: invocations, reads and clears of the
\* conversation on one thread, in two slots
ClearInvocations == 3

NextClear ==
    \E p \in Procs :
        \/ /\ run.started < ClearInvocations
           /\ Start(p, ConcMessage(run.started + 1))
        \/ GetHistory(p)
        \/ ModelFail(p)
        \/ ModelReply(p, ConcTurn(inv[p]))
        \/ SetHistory(p)
        \/ \E method \in {"GET", "DELETE"} : NetRouteStart(p, MainThread, method)
        \/ NetHistoryGet(p)
        \/ NetHistoryDelete(p)

SpecClear == InitConc /\ [][NextClear]_vars

\* Overlap: two slots serve chat requests and history reads on one thread,
\* each chat with its own message and a reply that names it
ChatRequests == 3

ChatMessages(n) ==
    {ConcMessage(n)} \cup (IF n = 1 THEN {<<"my name is ", "Ada">>} ELSE {})

NextChat ==
    \E p \in Procs :
        \/ /\ run.started < ChatRequests
           /\ \E m \in ChatMessages(run.started + 1) : MemStart(p, MainThread, m)
        \/ MemGetMessages(p)
        \/ MemGetPreferences(p)
        \/ MemCallFail(p)
        \/ MemReply(p, <<"reply to ">> \o inv[p].message)
        \/ MemPushUser(p)
        \/ MemPushAssistant(p)
        \/ MemSetPreferences(p)
        \/ MemFinal(p)
        \/ RouteStart(p, MainThread, "GET")
        \/ HistGetMessages(p)
        \/ HistGetPreferences(p)

SpecChat == Init /\ [][NextChat]_vars

(***************************************************************************)
(* Two threads                                                             *)
(***************************************************************************)
\* requests of every kind on either thread, one at a time
ThreadRequests == 3

NextThreads ==
    \E p \in SeqProcs :
        \/ /\ run.started < ThreadRequests
           /\ \E t \in Threads :
                \/ StartOn(p, t, ConcMessage(run.started + 1))
                \/ MemStart(p, t, <<"my name is ", "Ada">>)
                \/ \E prompt \in PlanPrompts : PlanStart(p, t, prompt)
        \/ \E t \in Threads, method \in {"GET", "DELETE"} :
                \/ RouteStart(p, t, method)
                \/ NetRouteStart(p, t, method)
        \/ GetHistory(p)
        \/ ModelReply(p, ConcTurn(inv[p]))
        \/ SetHistory(p)
        \/ NetHistoryGet(p)
        \/ NetHistoryDelete(p)
        \/ MemGetMessages(p)
        \/ MemGetPreferences(p)
        \/ MemReply(p, <<"Nice to meet you.">>)
        \/ MemPushUser(p)
        \/ MemPushAssistant(p)
        \/ MemSetPreferences(p)
        \/ MemFinal(p)
        \/ HistGetMessages(p)
        \/ HistGetPreferences(p)
        \/ HistDeleteMessages(p)
        \/ HistDeletePreferences(p)
        \/ PlanCompletion(p, "{plan:[Morning:2,Evening:1],summary}")
        \/ PlanPush(p)
        \/ PlanGet(p)

SpecThreads == Init /\ [][NextThreads]_vars

(***************************************************************************)
(* The Research and Writing sub-agents                                     *)
(***************************************************************************)
\* Here a content is a sequence of characters, so that lines, bullet markers
\* and whitespace are what the handlers' string operations see.
ContentLen == 3

\* the character class [-•*] of the research agent's regular expression
Markers == {"-", "<bullet>", "*"}

\* completion.choices[0]?.message?.content: NULL when the choice or its
\* content is missing, else a text
AgentContents ==
    {NULL} \cup UNION { [1..n -> Whitespace \cup Markers \cup {"a", "b"}] :
                        n \in 0..ContentLen }

\* content.split('\n')
RECURSIVE SplitLines(_)
SplitLines(s) ==
    IF \A i \in 1..Len(s) : s[i] # "\n"
    THEN <<s>>
    ELSE LET i == CHOOSE k \in 1..Len(s) :
                      s[k] = "\n" /\ \A j \in 1..(k - 1) : s[j] # "\n"
         IN <<SubSeq(s, 1, i - 1)>> \o SplitLines(SubSeq(s, i + 1, Len(s)))

\* line.replace(/^[-•*]\s*/, ''): one marker at the very start of the line,
\* with the whitespace after it
StripMarker(line) ==
    IF line # <<>> /\ Head(line) \in Markers THEN TrimStart(Tail(line)) ELSE line

\* research agent, lines 52-55
ParseInsights(content) ==
    LET lines == SplitLines(content)
        mapped == [i \in 1..Len(lines) |-> Trim(StripMarker(lines[i]))]
    IN SelectSeq(mapped, LAMBDA line : Len(line) > 0)

\* content.split(/\s+/): the pieces between the runs of whitespace, the empty
\* pieces before a leading and after a trailing run included
RECURSIVE SplitWhitespace(_)
SplitWhitespace(s) ==
    IF \A i \in 1..Len(s) : s[i] \notin Whitespace
    THEN <<s>>
    ELSE LET i == CHOOSE k \in 1..Len(s) :
                      s[k] \in Whitespace /\ \A j \in 1..(k - 1) : s[j] \notin Whitespace
         IN <<SubSeq(s, 1, i - 1)>> \o SplitWhitespace(TrimStart(SubSeq(s, i, Len(s))))

\* research agent, lines 32-47: up to the chat completion call
ResearchStart(p, t, topic) ==
    /\ Free(p)
    /\ inv' = [inv EXCEPT ![p] =
            [agent |-> "research", pc |-> "agent_call", thread |-> t,
             topic |-> topic, answered |-> FALSE, content |-> EMPTY,
             insights |-> <<>>]]
    /\ obs' = [obs EXCEPT ![p] = FreshObs]
    /\ run' = [run EXCEPT !.started = @ + 1]
    /\ UNCHANGED store

\* research agent, lines 49-64: the completion returned
ResearchReply(p, reply) ==
    LET l == inv[p]
        content == IF reply = NULL THEN EMPTY ELSE reply
    IN /\ l.agent = "research" /\ l.pc = "agent_call"
       /\ inv' = [inv EXCEPT ![p] =
                [l EXCEPT !.pc = "done", !.answered = TRUE, !.content = content,
                          !.insights = ParseInsights(content)]]
       /\ run' = [run EXCEPT !.completed = @ + 1]
       /\ UNCHANGED <<store, obs>>

\* writing agent, lines 35-60: up to the chat completion call
WritingStart(p, t, topic, insights) ==
    /\ Free(p)
    /\ inv' = [inv EXCEPT ![p] =
            [agent |-> "writing", pc |-> "agent_call", thread |-> t,
             topic |-> topic, insights |-> insights, answered |-> FALSE,
             content |-> EMPTY, wordCount |-> 0]]
    /\ obs' = [obs EXCEPT ![p] = FreshObs]
    /\ run' = [run EXCEPT !.started = @ + 1]
    /\ UNCHANGED store

\* writing agent, lines 62-73: the completion returned
WritingReply(p, reply) ==
    LET l == inv[p]
        content == IF reply = NULL THEN EMPTY ELSE reply
    IN /\ l.agent = "writing" /\ l.pc = "agent_call"
       /\ inv' = [inv EXCEPT ![p] =
                [l EXCEPT !.pc = "done", !.answered = TRUE, !.content = content,
                          !.wordCount = Len(SplitWhitespace(content))]]
       /\ run' = [run EXCEPT !.completed = @ + 1]
       /\ UNCHANGED <<store, obs>>

\* either agent: the chat completion call fails, the handler has no try
AgentCallFail(p) ==
    /\ inv[p].pc = "agent_call"
    /\ inv' = [inv EXCEPT ![p].pc = "failed"]
    /\ UNCHANGED <<store, obs, run>>

AgentRequests == 2

\* the two sub-agents called on their own, one request at a time
NextAgents ==
    \E p \in SeqProcs :
        \/ /\ run.started < AgentRequests
           /\ ResearchStart(p, MainThread, <<"tea">>)
        \/ /\ run.started < AgentRequests
           /\ \E insights \in InsightLists :
                  WritingStart(p, MainThread, <<"tea">>, insights)
        \/ \E reply \in AgentContents : ResearchReply(p, reply)
        \/ \E reply \in AgentContents : WritingReply(p, reply)
        \/ AgentCallFail(p)

SpecAgents == Init /\ [][NextAgents]_vars

(***************************************************************************)
(* Properties                                                              *)
(***************************************************************************)
\* the persisted conversation
Conversation == GetOrEmpty(store[MainThread], "conversation")

\* C1: after N completed, non-overlapping invocations the persisted
\* conversation has min(20, 2N) entries, never more than 20, and they are the
\* last min(20, 2N) entries of user_1, assistant_1, ..., user_N, assistant_N
\* in their order.
C1_HistoryFifo ==
    LET n == run.completed
        conv == Conversation
        chron == run.chron
    IN /\ Len(chron) = 2 * n
       /\ \A k \in 1..n :
            /\ chron[2 * k - 1] = [role |-> "user", content |-> HistMessage(k)]
            /\ chron[2 * k].role = "assistant"
       /\ Len(conv) = Min(20, 2 * n)
       /\ Len(conv) <= 20
       /\ \A k \in 1..Len(conv) : conv[k] = chron[Len(chron) - Len(conv) + k]

\* the 11th invocation has completed and the oldest exchange is gone
C1_Witness ==
    /\ run.completed >= 11
    /\ Len(Conversation) = 20
    /\ Conversation[1] = [role |-> "user", content |-> HistMessage(run.completed - 9)]

\* the events of type t among es
OfType(es, t) == { k \in 1..Len(es) : es[k].type = t }

\* the rounds of an invocation: its turns that carry tool calls
Rounds(o) == { k \in 1..Len(o.turns) : o.turns[k].tool_calls # <<>> }

\* the text of a turn: its content, none when it has none
TextOf(turn) == IF turn.content = NULL THEN EMPTY ELSE turn.content

HasCalls(m) == m.role = "assistant" /\ "tool_calls" \in DOMAIN m

\* C2: for every assistant turn with tool-call requests, as many tool
\* messages follow it in the message list as it has requests, the i-th with
\* the tool_call_id of the i-th request.
C2_OneResultPerRequest ==
    \A p \in SeqProcs :
        LET ms == inv[p].messages IN
        \A k \in 1..Len(ms) :
            HasCalls(ms[k]) =>
                LET calls == ms[k].tool_calls
                    n == Len(calls)
                IN /\ k + n <= Len(ms)
                   /\ \A j \in 1..n :
                        /\ ms[k + j].role = "tool"
                        /\ ms[k + j].tool_call_id = calls[j].id

\* C3: when the first turn carries no tool calls, one model call is made,
\* executedPrimitives is empty and the response is that turn's text.
C3_NoToolFirstTurn ==
    \A p \in SeqProcs :
        (/\ inv[p].pc \in {"set", "done"}
         /\ obs[p].turns[1].tool_calls = <<>>)
        => /\ Len(obs[p].sent) = 1
           /\ Len(obs[p].turns) = 1
           /\ inv[p].executedPrimitives = <<>>
           /\ inv[p].response = TextOf(obs[p].turns[1])

\* a first turn with text and no tool calls was returned to the caller
C3_Witness ==
    /\ inv[1].pc = "done"
    /\ obs[1].turns[1].tool_calls = <<>>
    /\ inv[1].response = <<"Here is the answer.">>

\* the for loop is at a function call, with parsable arguments, of a tool
\* that is none of the four
AtUnknownTool(l) ==
    /\ InBatch(l)
    /\ CurrentCall(l).type = "function"
    /\ JSONParse(CurrentCall(l).arguments) # ParseError
    /\ CurrentCall(l).name \notin KnownTools

UnknownToolMessage(call) ==
    [role |-> "tool", tool_call_id |-> call.id,
     content |-> <<"Unknown tool: ", call.name>>]

\* C4: dispatching a tool that is none of the four does not fail: the step
\* yields the tool message 'Unknown tool: <name>' for the call and the loop
\* goes on; that message is in the list of the next model call.
C4_UnknownTool ==
    /\ [][\A p \in SeqProcs :
            AtUnknownTool(inv[p]) /\ inv'[p] # inv[p] =>
                /\ inv'[p].pc = "batch"
                /\ inv'[p].i = inv[p].i + 1
                /\ inv'[p].toolResults =
                        Append(inv[p].toolResults, UnknownToolMessage(CurrentCall(inv[p])))]_vars
    /\ [](\A p \in SeqProcs :
            LET ms == inv[p].messages IN
            \A k \in 1..Len(ms) : \A j \in 1..Len(ms) :
                (HasCalls(ms[k]) /\ ms[j].role = "tool") =>
                    \A c \in 1..Len(ms[k].tool_calls) :
                        (/\ ms[k].tool_calls[c].id = ms[j].tool_call_id
                         /\ ms[k].tool_calls[c].name \notin KnownTools)
                        => ms[j].content =
                                <<"Unknown tool: ", ms[k].tool_calls[c].name>>)

\* the next model call was made with the message of an unknown tool
C4_Witness ==
    /\ inv[1].pc = "call_next"
    /\ \E j \in 1..Len(inv[1].messages) :
            /\ inv[1].messages[j].role = "tool"
            /\ inv[1].messages[j].content = <<"Unknown tool: ", "translate">>

\* C5: an invocation that returns has a trace that starts with
\* network-start and ends with its one network-complete, and made one model
\* call (one routing-agent-start/-end pair) more than it had tool-call rounds.
C5_TraceShape ==
    \A p \in SeqProcs :
        inv[p].pc = "done" =>
            LET es == inv[p].events
                rounds == Cardinality(Rounds(obs[p]))
            IN /\ es[1].type = "network-start"
               /\ es[Len(es)].type = "network-complete"
               /\ Cardinality(OfType(es, "network-complete")) = 1
               /\ Len(obs[p].sent) = rounds + 1
               /\ Cardinality(OfType(es, "routing-agent-start")) = rounds + 1
               /\ Cardinality(OfType(es, "routing-agent-end")) = rounds + 1
               /\ \A k \in OfType(es, "routing-agent-start") :
                        es[k + 1].type = "routing-agent-end"

\* one get_weather round, two model calls, the result returned
C5_Witness ==
    /\ inv[1].pc = "done"
    /\ inv[1].executedPrimitives = <<"get_weather">>
    /\ Len(obs[1].sent) = 2
    /\ Cardinality(Rounds(obs[1])) = 1

\* the names of the function calls of calls, in order
RECURSIVE FunctionNames(_)
FunctionNames(calls) ==
    IF calls = <<>> THEN <<>>
    ELSE (IF Head(calls).type = "function" THEN <<Head(calls).name>> ELSE <<>>)
         \o FunctionNames(Tail(calls))

\* the names of the function calls of the first n turns, in order
RECURSIVE NamesOfTurns(_, _)
NamesOfTurns(turns, n) ==
    IF n = 0 THEN <<>>
    ELSE NamesOfTurns(turns, n - 1) \o FunctionNames(turns[n].tool_calls)

\* the tools of the tool-execution-start events of es, in order
RECURSIVE StartedTools(_)
StartedTools(es) ==
    IF es = <<>> THEN <<>>
    ELSE (IF Head(es).type = "tool-execution-start"
            THEN <<Head(es).payload.tool>> ELSE <<>>)
         \o StartedTools(Tail(es))

\* C6: executedPrimitives holds the names of the dispatched tool calls in
\* dispatch order, calls of a batch in the model's order and batches in round
\* order: a research_topic of an earlier round precedes a write_content of a
\* later one.
C6_DispatchOrder ==
    \A p \in SeqProcs :
        LET l == inv[p]
            o == obs[p]
        IN /\ l.executedPrimitives = StartedTools(l.events)
           /\ l.pc = "done" =>
                l.executedPrimitives = NamesOfTurns(o.turns, Len(o.turns))
           /\ l.pc = "done" =>
                \A r1 \in Rounds(o) : \A r2 \in Rounds(o) :
                    (/\ r1 < r2
                     /\ FunctionNames(o.turns[r1].tool_calls) = <<"research_topic">>
                     /\ FunctionNames(o.turns[r2].tool_calls) = <<"write_content">>)
                    => \E a \in 1..Len(l.executedPrimitives) :
                         \E b \in 1..Len(l.executedPrimitives) :
                            /\ a < b
                            /\ l.executedPrimitives[a] = "research_topic"
                            /\ l.executedPrimitives[b] = "write_content"

\* research in the first round, writing in the second
C6_Witness ==
    /\ inv[1].pc = "done"
    /\ Len(obs[1].turns) = 3
    /\ inv[1].executedPrimitives = <<"research_topic", "write_content">>

\* C7: the first model call gets the system instruction, the prior history
\* in order and the new user message; every later call gets the list of the
\* call before it, then that call's assistant message with its tool calls,
\* then tool messages only.
C7_AppendOnlyMessages ==
    \A p \in SeqProcs :
        LET o == obs[p] IN
        /\ Len(o.sent) >= 1 =>
                o.sent[1] = <<[role |-> "system", content |-> systemPrompt]>>
                            \o o.prior
                            \o <<[role |-> "user", content |-> inv[p].message]>>
        /\ \A k \in 1..(Len(o.sent) - 1) :
                LET before == o.sent[k]
                    after == o.sent[k + 1]
                    n == Len(before)
                IN /\ Len(after) > n
                   /\ SubSeq(after, 1, n) = before
                   /\ after[n + 1] = [role |-> "assistant",
                                      content |-> o.turns[k].content,
                                      tool_calls |-> o.turns[k].tool_calls]
                   /\ \A j \in (n + 2)..Len(after) :
                        /\ after[j].role = "tool"
                        /\ \E c \in 1..Len(o.turns[k].tool_calls) :
                                o.turns[k].tool_calls[c].id = after[j].tool_call_id
        /\ Len(o.sent) >= 1 => inv[p].messages = o.sent[Len(o.sent)]

\* a third model call, after two rounds, of an invocation with prior history
C7_Witness ==
    /\ Len(obs[1].sent) = 3
    /\ obs[1].prior # <<>>
    /\ \E j \in 1..Len(obs[1].sent[2]) : obs[1].sent[2][j].role = "tool"

\* the last event of l
LastEvent(l) == l.events[Len(l.events)]

\* C8: get_weather never raises: the invocation does not fail in the
\* get_weather case of executeTool.
C8_WeatherNeverRaises ==
    \A p \in SeqProcs :
        inv[p].pc = "failed" =>
            ~(/\ LastEvent(inv[p]).type = "tool-execution-start"
              /\ LastEvent(inv[p]).payload.tool = "get_weather")

\* C9: events are append-only and never mutated: every event of the list
\* returned to the caller has the type and payload it had when it was
\* appended.
C9_EventsImmutable ==
    \A p \in SeqProcs : inv[p].pc = "done" => inv[p].events = obs[p].appended

\* the turn the model returned last
LastTurn(o) == o.turns[Len(o.turns)]

InRound == {"batch"} \cup AwaitingTool

\* C10: the loop is left only on a turn without tool calls; on a turn with
\* tool calls the round is run and, unless a call fails, another model call
\* made, however many rounds there were; once a turn has no tool calls the
\* history is persisted, network-complete emitted and the result returned.
C10_LoopEnds ==
    /\ [](\A p \in SeqProcs :
            /\ inv[p].pc \in {"set", "done"} => LastTurn(obs[p]).tool_calls = <<>>
            /\ inv[p].pc \in InRound => LastTurn(obs[p]).tool_calls # <<>>)
    /\ \A p \in SeqProcs :
            (inv[p].pc \in InRound) ~> (inv[p].pc \in {"call_next", "failed"})
    /\ \A p \in SeqProcs :
            (inv[p].pc = "set") ~>
                (/\ inv[p].pc = "done"
                 /\ LastEvent(inv[p]).type = "network-complete"
                 /\ Len(Conversation) >= 2
                 /\ Conversation[Len(Conversation) - 1] =
                        [role |-> "user", content |-> inv[p].message]
                 /\ Conversation[Len(Conversation)] =
                        [role |-> "assistant", content |-> inv[p].response])

\* the result is returned after as many rounds as the model asked for
C10_Witness ==
    /\ inv[1].pc = "done"
    /\ Cardinality(Rounds(obs[1])) = MaxRounds
    /\ Len(obs[1].sent) = MaxRounds + 1

\* the invocation of slot p failed in a chat completion call
ModelCallFailed(p) ==
    /\ inv[p].pc = "failed"
    /\ LastEvent(inv[p]).type = "routing-agent-start"

\* C11: a failed chat completion call ends the invocation: the call is not
\* made again (every list passed to the client but the last was answered),
\* the failing step makes no model call, dispatches no tool and stores
\* nothing, the caller gets no result record (no network-complete, the
\* invocation is failed and not done), and the slot moves again only for a
\* new request.
C11_ModelFailureAborts ==
    /\ [](\A p \in SeqProcs :
            /\ Len(obs[p].sent) <= Len(obs[p].turns) + 1
            /\ ModelCallFailed(p) =>
                    /\ Len(obs[p].sent) = Len(obs[p].turns) + 1
                    /\ OfType(inv[p].events, "network-complete") = {}
                    /\ Cardinality(OfType(inv[p].events, "routing-agent-end"))
                            = Len(obs[p].turns))
    /\ [][\A p \in SeqProcs :
            /\ (inv[p].pc \in {"call_first", "call_next"}
                    /\ inv'[p].pc = "failed") =>
                    /\ obs'[p] = obs[p]
                    /\ inv'[p] = [inv[p] EXCEPT !.pc = "failed"]
                    /\ store' = store
            /\ (ModelCallFailed(p) /\ inv'[p] # inv[p]) =>
                    /\ inv'[p].pc = "get"
                    /\ obs'[p].sent = <<>>]_vars

\* the second model call of an invocation failed, after a round of tools
C11_Witness ==
    /\ ModelCallFailed(1)
    /\ Len(obs[1].sent) = 2
    /\ inv[1].executedPrimitives # <<>>

\* the entries of the log s with operation op of agent
LogEntries(s, op, agent) ==
    { k \in 1..Len(s) : s[k].op = op /\ s[k].agent = agent }

\* C12: cityWorkflow calls the Research agent once, on the city's topic, then
\* the Writing agent once with the city as topic, the insights Research
\* returned, in their order, and style 'report'; the value it returns
\* carries those insights and the content Writing returned.
C12_CityWorkflow ==
    \A p \in SeqProcs :
        LET s == obs[p].subs IN
        /\ \A k \in LogEntries(s, "call", "cityWorkflow") :
                /\ k + 1 <= Len(s)
                /\ s[k + 1] = Call("research",
                        [topic |-> s[k].value.city \o
                            <<" - history, culture, landmarks, and interesting facts">>])
        /\ \A k \in LogEntries(s, "return", "cityWorkflow") :
                /\ k >= 6
                /\ s[k - 5].op = "call" /\ s[k - 5].agent = "cityWorkflow"
                /\ s[k - 4].op = "call" /\ s[k - 4].agent = "research"
                /\ s[k - 3].op = "return" /\ s[k - 3].agent = "research"
                /\ s[k - 2] = Call("writing",
                        [topic |-> s[k - 5].value.city,
                         insights |-> s[k - 3].value.insights,
                         style |-> <<"report">>])
                /\ s[k - 1].op = "return" /\ s[k - 1].agent = "writing"
                /\ s[k].value.city = s[k - 5].value.city
                /\ s[k].value.research.insights = s[k - 3].value.insights
                /\ s[k].value.report.content = s[k - 1].value.content

\* a city workflow has returned a report on two insights
C12_Witness ==
    \E k \in LogEntries(obs[1].subs, "return", "cityWorkflow") :
        /\ Len(obs[1].subs[k].value.research.insights) = 2
        /\ obs[1].subs[k].value.report.content \in WrittenContents

\* the last n entries of the log s
LastEntries(s, n) == SubSeq(s, Len(s) - n + 1, Len(s))

\* C13: in cityWorkflow the Writing agent is called only once Research has
\* returned; when Research fails Writing is not called, and when either
\* fails the workflow fails as a whole: it returns nothing, the tool has no
\* result and the invocation fails.
C13_WorkflowFailure ==
    /\ [](\A p \in SeqProcs :
            LET s == obs[p].subs
                l == inv[p]
            IN /\ l.pc = "wf_writing" =>
                    /\ Len(s) >= 4
                    /\ s[Len(s)].op = "call" /\ s[Len(s)].agent = "writing"
                    /\ s[Len(s) - 1].op = "return"
                    /\ s[Len(s) - 1].agent = "research"
                    /\ s[Len(s)].value.insights = s[Len(s) - 1].value.insights
               /\ \A k \in LogEntries(s, "throw", "cityWorkflow") :
                    /\ k = Len(s)
                    /\ l.pc = "failed"
                    /\ \/ LastEntries(s, 4)
                            = <<Call("cityWorkflow", s[k - 3].value),
                                Call("research", s[k - 2].value),
                                Throw("research"), Throw("cityWorkflow")>>
                       \/ /\ Len(s) >= 6
                          /\ s[k - 5].op = "call"
                          /\ s[k - 5].agent = "cityWorkflow"
                          /\ s[k - 3].op = "return"
                          /\ s[k - 3].agent = "research"
                          /\ LastEntries(s, 3)
                                = <<Call("writing", s[k - 2].value),
                                    Throw("writing"), Throw("cityWorkflow")>>
                    /\ LastEvent(l).type = "workflow-execution-start"
                    /\ \A j \in 1..Len(l.toolResults) :
                            l.toolResults[j].tool_call_id # CurrentCall(l).id
                    /\ OfType(l.events, "network-complete") = {})
    /\ [][\A p \in SeqProcs :
            /\ (inv[p].pc = "wf_research" /\ inv'[p].pc # "wf_research") =>
                    \/ inv'[p].pc = "wf_writing"
                       /\ obs'[p].subs[Len(obs'[p].subs) - 1].op = "return"
                    \/ inv'[p].pc = "failed"
                       /\ LogEntries(obs'[p].subs, "call", "writing")
                            = LogEntries(obs[p].subs, "call", "writing")
            /\ (inv[p].pc # "wf_writing" /\ inv'[p].pc = "wf_writing") =>
                    inv[p].pc = "wf_research"]_vars

\* the Research agent failed inside the city workflow
C13_Witness ==
    /\ inv[1].pc = "failed"
    /\ Len(obs[1].subs) >= 4
    /\ LastEntries(obs[1].subs, 2) = <<Throw("research"), Throw("cityWorkflow")>>

\* the events that start or end an external call
CallEvents ==
    {"routing-agent-start", "routing-agent-end",
     "tool-execution-start", "tool-execution-end"}

IsCallEvent(e) == e.type \in CallEvents

\* the external calls of slot p that were started and have not ended
Outstanding(p) ==
    (Len(obs[p].sent) - Len(obs[p].turns))
    + (Cardinality(OfType(inv[p].events, "tool-execution-start"))
        - Cardinality(OfType(inv[p].events, "tool-execution-end")))

\* C14: an invocation has at most one external call in progress: in the
\* events of its model calls and tool executions every start is followed by
\* the end of the same call before any other start, so a tool starts only
\* when the tool before it has ended and a model call starts only when
\* every tool of the batch before it has ended.
C14_OneCallAtATime ==
    \A p \in SeqProcs :
        LET x == SelectSeq(inv[p].events, IsCallEvent) IN
        /\ Outstanding(p) \in {0, 1}
        /\ \A j \in 1..Len(x) :
                IF j % 2 = 1
                THEN x[j].type \in {"routing-agent-start", "tool-execution-start"}
                ELSE \/ /\ x[j - 1].type = "routing-agent-start"
                        /\ x[j].type = "routing-agent-end"
                     \/ /\ x[j - 1].type = "tool-execution-start"
                        /\ x[j].type = "tool-execution-end"
                        /\ x[j].payload.tool = x[j - 1].payload.tool

\* the second tool of a batch is running, the first has ended, and a model
\* call follows the batch
C14_Witness ==
    /\ inv[1].pc = "call_next"
    /\ Len(inv[1].assistantMessage.tool_calls) = 2
    /\ Cardinality(OfType(inv[1].events, "tool-execution-end")) = 2
    /\ Outstanding(1) = 1

\* the invocation of slot p failed while parsing the arguments of a tool call
ArgumentsFailed(p) ==
    /\ inv[p].pc = "failed"
    /\ inv[p].i \in 1..Len(inv[p].assistantMessage.tool_calls)
    /\ CurrentCall(inv[p]).type = "function"
    /\ JSONParse(CurrentCall(inv[p]).arguments) = ParseError

\* C16: a tool call whose arguments are not valid JSON does not end the
\* invocation: no invocation fails at the parsing of a call's arguments.
C16_MalformedArgumentsDegrade ==
    \A p \in SeqProcs : ~ArgumentsFailed(p)

\* the exchange of an invocation with message m
Exchange(m, r) ==
    <<[role |-> "user", content |-> m], [role |-> "assistant", content |-> r]>>

\* C15: when invocations on one thread overlap, the conversation stored is
\* the one written by the invocation that persisted last: the conversation
\* that invocation read when it started, then its own exchange, capped at
\* 20; it is never longer than 20, and each invocation's snapshot is the
\* conversation stored when it read it.
C15_LastWriterWins ==
    /\ [](/\ Len(Conversation) <= 20
          /\ run.last.slot # 0 =>
                Conversation =
                    SliceLast(run.last.prior
                                \o Exchange(run.last.message, run.last.response),
                              20))
    /\ [][\A p \in Procs :
            /\ (inv[p].pc = "get" /\ inv'[p].pc # "get") =>
                    /\ obs'[p].prior = Conversation
                    /\ inv'[p].history = Conversation
            /\ (inv[p].pc = "set" /\ inv'[p].pc = "done") =>
                    /\ run'.last.slot = p
                    /\ run'.last.prior = obs[p].prior
                    /\ run'.last.message = inv[p].message]_vars

\* two invocations overlapped on a full conversation and both have
\* persisted: the exchange of the one that persisted first is gone
C15_Witness ==
    /\ run.completed = 2
    /\ \A p \in Procs : inv[p].pc = "done" /\ obs[p].prior = EarlierConversation
    /\ Len(Conversation) = 20
    /\ \E p \in Procs :
            \A k \in 1..Len(Conversation) :
                Conversation[k].content # inv[p].message

\* C17: whatever the model returns as its JSON-mode content, unparsable
\* text, no content or JSON without a plan array, the Day Planner returns a
\* result with a plan and a number of activities: a request whose completion
\* call was answered does not fail, and its plan is the parsed plan or the
\* placeholder of one Morning block with one activity.
C17_PlanOrPlaceholder ==
    \A p \in SeqProcs :
        LET l == inv[p] IN
        /\ l.pc = "failed" => ~l.answered
        /\ l.pc = "done" =>
                /\ PlanResult(l).plan.kind = "array"
                /\ PlanResult(l).totalActivities \in Nat
                /\ PlanParse(l.content) = ParseError =>
                        /\ PlanResult(l).plan = PlaceholderPlan.plan
                        /\ PlanResult(l).totalActivities = 1

\* the messages the Memory Agent keeps on the thread
StoredMessages == GetOrEmpty(store[MainThread], "messages")

\* C18: the stored 'messages' list of the Memory Agent never holds more
\* than 20 entries and holds the entries pushed last, in the order they were
\* pushed; a chat request that no other request overlaps returns
\* messageCount = min(length before the request + 2, 20).
C18_MessagesWindow ==
    /\ Len(StoredMessages) <= 20
    /\ StoredMessages = SliceLast(run.chron, 20)
    /\ \A p \in SeqProcs :
            (inv[p].agent = "memory" /\ inv[p].pc = "done") =>
                inv[p].messageCount = Min(Len(inv[p].existingMessages) + 2, 20)

\* a chat on a full list has returned: the two oldest messages are gone
C18_Witness ==
    /\ inv[1].agent = "memory"
    /\ inv[1].pc = "done"
    /\ Len(inv[1].existingMessages) = 20
    /\ inv[1].messageCount = 20
    /\ Len(run.chron) >= 22
    /\ StoredMessages[20] = [role |-> "assistant", content |-> inv[1].response]

\* neither key of the Memory Agent is on the thread
Cleared ==
    /\ ~store[MainThread]["messages"].present
    /\ ~store[MainThread]["preferences"].present

\* a chat request is being served
ChatActive == \E p \in Procs : inv[p].agent = "memory" /\ ~Free(p)

\* slot p moves from position a to position b
Moves(p, a, b) == inv[p].pc = a /\ inv'[p].pc = b

\* C19: DELETE /api/history removes both 'messages' and 'preferences': when
\* it completes both keys are gone and it reports an empty history; the
\* keys stay gone for as long as no chat request is being served; a GET
\* /api/history then returns no messages, no preferences and messageCount
\* 0, and the next chat request reads an empty history and empty
\* preferences.
C19_ClearRemovesBoth ==
    [][\A p \in SeqProcs :
        /\ Moves(p, "h_delete_preferences", "done") =>
                /\ Cleared'
                /\ inv'[p].result = HistoryResult(<<>>, NoPreferences)
        /\ (Cleared /\ ~ChatActive) => Cleared'
        /\ (Cleared /\ Moves(p, "h_get_preferences", "done")) =>
                /\ inv'[p].result.messages = <<>>
                /\ ~inv'[p].result.preferences.defined
                /\ inv'[p].result.messageCount = 0
        /\ (Cleared /\ Moves(p, "m_get_messages", "m_get_preferences")) =>
                inv'[p].existingMessages = <<>>
        /\ (Cleared /\ Moves(p, "m_get_preferences", "m_call")) =>
                /\ inv'[p].preferences = NoPreferences
                /\ obs'[p].sent =
                    << <<[role |-> "system",
                          content |-> <<"You are a helpful assistant with memory. ...">>],
                         [role |-> "user", content |-> inv[p].message]>> >>]_vars

\* after chats that left messages and a name, a DELETE removed both keys
\* and the GET that followed returned an empty history
C19_Witness ==
    /\ run.deleted = {"messages", "preferences"}
    /\ Cleared
    /\ inv[1].agent = "history"
    /\ inv[1].method = "GET"
    /\ inv[1].pc = "done"
    /\ inv[1].result.messageCount = 0

\* the value of key on thread t, when the key holds a list
ListOf(t, key) == GetOrEmpty(store[t], key)

\* C20: conversations are isolated per thread: a step of a request on one
\* thread, of the network agent, the memory agent, the day planner or a
\* history route, leaves every key of every other thread as it was, and
\* what the request reads and returns is the state of its own thread.
C20_ThreadIsolation ==
    [][\A p \in SeqProcs :
        inv'[p] # inv[p] =>
            LET t == inv'[p].thread IN
            /\ \A u \in Threads \ {t} : store'[u] = store[u]
            /\ Moves(p, "get", "call_first") =>
                    inv'[p].history = ListOf(t, "conversation")
            /\ Moves(p, "n_get", "done") =>
                    inv'[p].result.conversation = ListOf(t, "conversation")
            /\ Moves(p, "m_get_messages", "m_get_preferences") =>
                    inv'[p].existingMessages = ListOf(t, "messages")
            /\ Moves(p, "m_get_preferences", "m_call") =>
                    inv'[p].preferences = store[t]["preferences"].value
            /\ Moves(p, "m_final", "done") =>
                    inv'[p].messageCount = Len(ListOf(t, "messages"))
            /\ Moves(p, "h_get_messages", "h_get_preferences") =>
                    inv'[p].messages = ListOf(t, "messages")
            /\ Moves(p, "plan_get", "done") =>
                    inv'[p].history = ListOf(t, "history")]_vars

\* a plan request on thread B has pushed its entry while thread A holds a
\* conversation of the network agent and no plan
C20_Witness ==
    /\ inv[1].agent = "day-planner"
    /\ inv[1].thread = "B"
    /\ inv[1].pc = "done"
    /\ Len(inv[1].history) = 1
    /\ ListOf("A", "history") = <<>>
    /\ ListOf("A", "conversation") # <<>>
    /\ ListOf("B", "conversation") = <<>>

\* C21: every insight the research agent returns is non-empty and does not
\* start with a bullet marker, and a missing or empty content gives the empty
\* list of insights.
C21_InsightsStripped ==
    \A p \in Procs :
        LET l == inv[p] IN
        (l.agent = "research" /\ l.pc = "done") =>
            /\ \A i \in 1..Len(l.insights) :
                   /\ l.insights[i] # <<>>
                   /\ Head(l.insights[i]) \notin Markers
            /\ (l.content = EMPTY => l.insights = <<>>)

\* C22: the writing agent's wordCount is the number of whitespace-delimited
\* tokens of the content (its maximal runs of non-whitespace characters),
\* zero for the empty content.
C22_WordCount ==
    \A p \in Procs :
        LET l == inv[p]
            c == l.content
        IN (l.agent = "writing" /\ l.pc = "done") =>
               l.wordCount =
                   Cardinality({ i \in 1..Len(c) :
                                   /\ c[i] \notin Whitespace
                                   /\ (i = 1 \/ c[i - 1] \in Whitespace) })

\* C23: the response returned, and recorded as the assistant entry of the
\* persisted history, is the text of the terminating turn when that is
\* non-empty, else the most recent non-empty text of an earlier turn of the
\* invocation, else the empty string.
C23_ResponseIsLatestText ==
    \A p \in SeqProcs :
        LET l == inv[p]
            turns == obs[p].turns
            texts == { i \in 1..Len(turns) : Truthy(turns[i].content) }
            latest == IF texts = {} THEN EMPTY
                      ELSE turns[CHOOSE i \in texts : \A j \in texts : j <= i].content
        IN /\ (l.agent = "network" /\ l.pc \in {"set", "done"}) => l.response = latest
           /\ (l.agent = "network" /\ l.pc = "done") =>
                  /\ LastEvent(l).type = "network-complete"
                  /\ LastEvent(l).payload.response = Slice200(latest)
                  /\ Conversation[Len(Conversation)] =
                         [role |-> "assistant", content |-> latest]

\* three turns: two with different texts, then a terminating turn without
\* text; the text of the second was returned
C23_Witness ==
    /\ inv[1].pc = "done"
    /\ Len(obs[1].turns) = 3
    /\ Truthy(obs[1].turns[1].content)
    /\ Truthy(obs[1].turns[2].content)
    /\ ~Truthy(obs[1].turns[3].content)
    /\ inv[1].response = obs[1].turns[2].content
    /\ inv[1].response # obs[1].turns[1].content

\* the names pushed onto executedPrimitives in the first k rounds
RECURSIVE ToolsUpTo(_, _)
ToolsUpTo(turns, k) ==
    IF k = 0 THEN <<>>
    ELSE LET fc == SelectSeq(turns[k].tool_calls, LAMBDA c : c.type = "function")
         IN ToolsUpTo(turns, k - 1) \o [j \in 1..Len(fc) |-> fc[j].name]

\* one network-step-finish per round, between the round's last event and the
\* next routing-agent-start, the k-th with the tools of rounds 1..k
StepFinishPerRound(events, turns) ==
    LET sf == SelectSeq(events, LAMBDA e : e.type = "network-step-finish")
    IN /\ Len(sf) = Cardinality({ k \in 1..Len(turns) : turns[k].tool_calls # <<>> })
       /\ \A k \in 1..Len(sf) : sf[k].payload.tools = ToolsUpTo(turns, k)
       /\ \A i \in 1..Len(events) :
              events[i].type = "network-step-finish" =>
                  /\ i > 1 /\ i < Len(events)
                  /\ events[i - 1].type \in {"tool-execution-end", "routing-agent-end"}
                  /\ events[i + 1].type = "routing-agent-start"

\* C24: the returned events hold exactly one network-step-finish per
\* tool-call round, after the round's last tool-execution-end and before the
\* next routing-agent-start, and its tool list is the cumulative list of that
\* step: the tools of that round and the earlier ones, none of a later round.
C24_StepFinishCumulative ==
    \A p \in SeqProcs :
        (inv[p].agent = "network" /\ inv[p].pc = "done") =>
            StepFinishPerRound(inv[p].events, obs[p].turns)

\* the awaited call of the tool the slot was at has thrown
ToolThrew(p) ==
    /\ inv[p].agent = "network"
    /\ obs[p].subs # <<>>
    /\ obs[p].subs[Len(obs[p].subs)].op = "throw"

\* C25: a tool, sub-agent or workflow that throws during dispatch is not
\* caught: the invocation fails, no tool message is appended for that call,
\* no further model call is made, and neither that call's tool-execution-end
\* nor network-complete is emitted.
C25_ToolThrowPropagates ==
    \A p \in SeqProcs :
        ToolThrew(p) =>
            LET l == inv[p]
                id == CurrentCall(l).id
            IN /\ l.pc = "failed"
               /\ \A k \in 1..Len(l.toolResults) : l.toolResults[k].tool_call_id # id
               /\ \A k \in 1..Len(l.messages) :
                      l.messages[k].role = "tool" => l.messages[k].tool_call_id # id
               /\ Len(obs[p].sent) = Len(obs[p].turns)
               /\ LastEvent(l).type \in {"tool-execution-start",
                                         "agent-execution-start",
                                         "workflow-execution-start"}
               /\ Cardinality(OfType(l.events, "tool-execution-end")) + 1 =
                      Cardinality(OfType(l.events, "tool-execution-start"))
               /\ OfType(l.events, "network-complete") = {}

\* the weather lookup of the second call of a batch threw, after the first
\* call of the batch got its result
C25_Witness ==
    /\ ToolThrew(1)
    /\ obs[1].subs[Len(obs[1].subs)] = Throw("getWeather")
    /\ inv[1].i = 2
    /\ Len(inv[1].toolResults) = 1

\* the events a tool's case of executeTool pushes inside the tool's own pair
InnerEvents(tool) ==
    CASE tool = "research_topic" ->
            [start |-> createEvent("agent-execution-start", [agent |-> "research"]),
             end |-> createEvent("agent-execution-end", [agent |-> "research"])]
      [] tool = "write_content" ->
            [start |-> createEvent("agent-execution-start", [agent |-> "writing"]),
             end |-> createEvent("agent-execution-end", [agent |-> "writing"])]
      [] tool = "city_research" ->
            [start |-> createEvent("workflow-execution-start", [workflow |-> "city"]),
             end |-> createEvent("workflow-execution-end", [workflow |-> "city"])]
      [] OTHER -> [start |-> NoPayload, end |-> NoPayload]

InnerTypes ==
    {"agent-execution-start", "agent-execution-end",
     "workflow-execution-start", "workflow-execution-end"}

\* C26: an agent-execution-start/end pair appears only between the
\* tool-execution-start and -end of a research_topic or write_content call,
\* one pair per call; a workflow-execution-start/end pair only within a
\* city_research call; a get_weather call or a call of an unknown tool has
\* nothing between its start and its end.
C26_NestedEvents ==
    \A p \in SeqProcs :
        inv[p].agent = "network" =>
        LET es == inv[p].events IN
        \A i \in 1..Len(es) :
            LET e == es[i] IN
            /\ e.type = "tool-execution-start" =>
                   LET inner == InnerEvents(e.payload.tool) IN
                   i < Len(es) =>
                       IF inner.start = NoPayload
                       THEN /\ es[i + 1].type = "tool-execution-end"
                            /\ es[i + 1].payload.tool = e.payload.tool
                       ELSE /\ es[i + 1] = inner.start
                            /\ i + 1 < Len(es) =>
                                   /\ es[i + 2] = inner.end
                                   /\ i + 2 < Len(es)
                                   /\ es[i + 3].type = "tool-execution-end"
                                   /\ es[i + 3].payload.tool = e.payload.tool
            /\ e.type \in InnerTypes =>
                   \E d \in 1..2 :
                       /\ i > d
                       /\ es[i - d].type = "tool-execution-start"
                       /\ es[i - d + 1] = InnerEvents(es[i - d].payload.tool).start
                       /\ d = 2 => e = InnerEvents(es[i - d].payload.tool).end
            /\ e.type = "tool-execution-end" =>
                   /\ i > 1
                   /\ \/ /\ es[i - 1].type = "tool-execution-start"
                         /\ es[i - 1].payload.tool = e.payload.tool
                         /\ InnerEvents(e.payload.tool).start = NoPayload
                      \/ /\ es[i - 1] = InnerEvents(e.payload.tool).end
                         /\ es[i - 1] # NoPayload

\* an invocation returned whose round called research_topic and get_weather
C26_Witness ==
    /\ inv[1].agent = "network" /\ inv[1].pc = "done"
    /\ \E i \in 1..Len(inv[1].events) :
           /\ inv[1].events[i].type = "tool-execution-start"
           /\ inv[1].events[i].payload.tool = "research_topic"
    /\ \E i \in 1..Len(inv[1].events) :
           /\ inv[1].events[i].type = "tool-execution-end"
           /\ inv[1].events[i].payload.tool = "get_weather"

\* C27: the handler writes the thread state once, after the loop: while an
\* invocation is in progress, and after it failed at any point, the persisted
\* conversation is what it was when the invocation started, so the user
\* message of a failed invocation is never recorded.
C27_FailureKeepsHistory ==
    /\ store[MainThread]["conversation"].present = (run.completed > 0)
    /\ Len(Conversation) = 2 * run.completed
    /\ \A p \in SeqProcs :
           (inv[p].agent = "network" /\ inv[p].pc \notin {"idle", "get", "done"})
           => Conversation = obs[p].prior

\* the second invocation failed after a turn of the model; the exchange of
\* the first is all that is stored
C27_Witness ==
    /\ inv[1].pc = "failed"
    /\ run.started = 2
    /\ Len(obs[1].turns) >= 1
    /\ Len(Conversation) = 2
    /\ Conversation = obs[1].prior

\* a list of entries that is empty or user, assistant, user, assistant, ...
Alternates(c) ==
    /\ Len(c) % 2 = 0
    /\ \A k \in 1..Len(c) :
           c[k].role = IF k % 2 = 1 THEN "user" ELSE "assistant"

\* the slot holds a DELETE /network/history request that has returned
ClearDone(q) ==
    /\ inv[q].agent = "network-history"
    /\ inv[q].method = "DELETE"
    /\ inv[q].pc = "done"

\* C28: the persisted conversation always has even length and alternates
\* user, assistant, starting with user, after any sequence of invocations and
\* DELETE /network/history calls, overlapping invocations included; so does
\* every conversation GET /network/history returns.
C28_ConversationAlternates ==
    /\ Alternates(Conversation)
    /\ \A p \in Procs :
           (inv[p].agent = "network-history" /\ inv[p].pc = "done")
           => Alternates(inv[p].result.conversation)

\* two invocations have persisted and a clear has returned, and the
\* conversation stored holds the exchange of an invocation
C28_Witness ==
    /\ run.completed >= 2
    /\ \E q \in Procs : ClearDone(q)
    /\ Len(Conversation) = 2
    /\ Alternates(Conversation)

\* C29 as claimed: a DELETE /network/history that completed while an
\* invocation was in progress stays effective: once a clear has returned, the
\* persisted conversation holds no entry that was stored before the clear.
\* The entries of EarlierConversation are stored from the start.
C29_ClearStaysEffective ==
    (\E q \in Procs : ClearDone(q)) =>
        \A k \in 1..Len(Conversation) :
            \A j \in 1..Len(EarlierConversation) :
                Conversation[k] # EarlierConversation[j]

\* C29: a clear is effective when it completes, and the last write wins: an
\* invocation in progress that read the conversation before the clear stores
\* its snapshot and its exchange (capped at 20) over the cleared key, so the
\* entries it read are stored again; one that reads after the clear reads
\* and stores no entry from before it.
C29_ClearThenLastWriteWins ==
    [][\A p \in Procs :
        /\ (inv[p].pc = "n_delete" /\ inv'[p].pc = "done") =>
                /\ ~store'[MainThread]["conversation"].present
                /\ Conversation' = <<>>
        /\ (inv[p].pc = "get" /\ inv'[p].pc # "get") =>
                obs'[p].prior = Conversation
        /\ (inv[p].pc = "set" /\ inv'[p].pc = "done") =>
                Conversation' =
                    SliceLast(obs[p].prior
                                \o Exchange(inv[p].message, inv[p].response),
                              HistoryCap)]_vars

\* an invocation read the full conversation, a clear returned, and the
\* invocation then stored the entries it had read with its exchange
C29_Witness ==
    \E p, q \in Procs :
        /\ ClearDone(q)
        /\ inv[p].agent = "network" /\ inv[p].pc = "done"
        /\ obs[p].prior = EarlierConversation
        /\ Len(Conversation) = HistoryCap
        /\ Conversation[1] = EarlierConversation[3]

\* after its first entry the list alternates, and every assistant entry
\* follows the user entry of its own request
PairedMessages(c) ==
    \A k \in 2..Len(c) :
        /\ c[k].role # c[k - 1].role
        /\ c[k].role = "assistant" =>
               c[k].content = <<"reply to ">> \o c[k - 1].content

\* C30: under any interleaving of chat requests and history reads on one
\* thread, the stored 'messages' list, whenever it is read, alternates user
\* and assistant entries, and every assistant entry directly follows the
\* user entry of the same request.
C30_MessagesPaired ==
    /\ PairedMessages(StoredMessages)
    /\ \A p \in Procs :
           /\ (inv[p].agent = "history" /\ inv[p].pc = "done")
              => PairedMessages(inv[p].result.messages)
           /\ (inv[p].agent = "memory" /\ inv[p].pc # "m_get_messages")
              => PairedMessages(inv[p].existingMessages)

====
